---------------------------- MODULE Spec2Model ----------------------------
(***************************************************************************)
(* Balance-patch tracker: the ingestion / aggregation / reconciliation    *)
(* pipeline over the Firestore collections `characters` and `patchNotes`. *)
(*                                                                         *)
(* Abstractions (stated once, used throughout):                            *)
(*  - a patchDate is a day number; new Date(d).getTime() is the identity   *)
(*    on it, so only the order and the ties of dates are kept;             *)
(*  - a Change keeps its _type (numeric / description) and its changeType; *)
(*    target, stat, before, after and description texts are dropped;       *)
(*  - a developer comment keeps its length and whether it contains a       *)
(*    nerf keyword / a buff keyword;                                       *)
(*  - a DOM element keeps the outcome of the text tests the parser runs on *)
(*    it (its `kind`), and its nesting.                                    *)
(***************************************************************************)
EXTENDS Integers, Sequences, FiniteSets, TLC

VARIABLES
    characters,     \* Firestore collection `characters`, keyed by name
    patchNotes,     \* Firestore collection `patchNotes`, keyed by id
    ingPc,          \* parse-balance-changes main(): position of the run
    characterMap,   \* parse-balance-changes main(): in-memory characters
    unparsedPatches,\* parse-balance-changes main(): the selected patch notes
    ingIdx,         \* parse-balance-changes main(): loop index i (1-based)
    affectedCharacters, \* parse-balance-changes main(): names touched
    fixesFile,      \* data/patch-fixes.json written by reparse-patches
    out,            \* what the last finished operation reported
    recovery,       \* interrupted runs: what they had selected
    ops,            \* reconciliation runs and admin requests served so far
    missingFile,    \* data/missing-patches.json: the details list
    aggHist,        \* aggregator harness: the input patch history
    aggOut,         \* aggregator harness: the last result
    fnIn,           \* function harness: the input of a pure function
    fnOut           \* function harness: the last result

vars == << characters, patchNotes, ingPc, characterMap, unparsedPatches,
           ingIdx, affectedCharacters, fixesFile, out, recovery, ops,
           missingFile, aggHist, aggOut, fnIn, fnOut >>

pipeVars == << characters, patchNotes, ingPc, characterMap, unparsedPatches,
               ingIdx, affectedCharacters, fixesFile, out, recovery, ops,
               missingFile >>

aggVars == << aggHist, aggOut, fnIn, fnOut >>

----------------------------------------------------------------------------
(* Bounds of the model *)

\* reconciliation script runs and admin requests in one behaviour
MaxOps == 2
\* longest history given to the aggregator harness
MaxHist == 4
\* longest change list given to the direction harness
MaxChanges == 3
\* steps one change record is followed through
MaxEdits == 4
\* largest number written in a before or an after
MaxValue == 3
\* day numbers used by the aggregator harness
MaxDate == 2

----------------------------------------------------------------------------
(* Generic sequence helpers *)

Reverse(s) == [i \in 1..Len(s) |-> s[Len(s) + 1 - i]]

Max(a, b) == IF a > b THEN a ELSE b

RECURSIVE SeqToSet(_)
SeqToSet(s) == IF s = << >> THEN {} ELSE {Head(s)} \cup SeqToSet(Tail(s))

RECURSIVE CountWhere(_, _)
\* patchHistory.filter((p) => p.patchId === id).length
CountWhere(h, id) ==
    IF h = << >> THEN 0
    ELSE (IF Head(h).patchId = id THEN 1 ELSE 0) + CountWhere(Tail(h), id)

\* findIndex((p) => p.patchId === id), 0 when there is none (JS: -1)
FindIndex(h, id) ==
    IF \E i \in 1..Len(h) : h[i].patchId = id
    THEN CHOOSE i \in 1..Len(h) :
            /\ h[i].patchId = id
            /\ \A j \in 1..(i - 1) : h[j].patchId # id
    ELSE 0

RECURSIVE InsertAsc(_, _)
\* stable insertion: e goes after every element whose date is <= e's
InsertAsc(sorted, e) ==
    IF sorted = << >> THEN << e >>
    ELSE IF Head(sorted).patchDate <= e.patchDate
         THEN << Head(sorted) >> \o InsertAsc(Tail(sorted), e)
         ELSE << e >> \o sorted

RECURSIVE SortAscFrom(_, _)
SortAscFrom(acc, s) ==
    IF s = << >> THEN acc ELSE SortAscFrom(InsertAsc(acc, Head(s)), Tail(s))

\* [...h].sort((a, b) => date(a) - date(b)): stable, oldest first
SortOldestFirst(h) == SortAscFrom(<< >>, h)

RECURSIVE InsertDesc(_, _)
InsertDesc(sorted, e) ==
    IF sorted = << >> THEN << e >>
    ELSE IF Head(sorted).patchDate >= e.patchDate
         THEN << Head(sorted) >> \o InsertDesc(Tail(sorted), e)
         ELSE << e >> \o sorted

RECURSIVE SortDescFrom(_, _)
SortDescFrom(acc, s) ==
    IF s = << >> THEN acc ELSE SortDescFrom(InsertDesc(acc, Head(s)), Tail(s))

\* h.sort((a, b) => date(b) - date(a)): stable, newest first
SortNewestFirst(h) == SortDescFrom(<< >>, h)

----------------------------------------------------------------------------
(* Data model *)

ChangeTypes == {"buff", "nerf", "mixed"}

NoComment == [isNull |-> TRUE, len |-> 0, nerfKw |-> FALSE, buffKw |-> FALSE]

Comment(n, nk, bk) == [isNull |-> FALSE, len |-> n, nerfKw |-> nk, buffKw |-> bk]

\* devComment?.length || 0
CommentLength(c) == IF c.isNull THEN 0 ELSE c.len

NumericChange(ct) == [type |-> "numeric", changeType |-> ct]

\* description changes are stored with changeType 'mixed'
DescriptionChange == [type |-> "description", changeType |-> "mixed"]

ZeroStats ==
    [ totalPatches |-> 0, buffCount |-> 0, nerfCount |-> 0, mixedCount |-> 0,
      currentStreak |-> [type |-> "null", count |-> 0],
      maxBuffStreak |-> 0, maxNerfStreak |-> 0 ]

\* the function harness at rest
NoInput == [kind |-> "none"]

NoOutput == [fn |-> "none"]

\* a character document that does not exist
NoCharacter == [exists |-> FALSE, stats |-> ZeroStats, patchHistory |-> << >>]

\* the record main() creates the first time a patch mentions a character
NewCharacter == [exists |-> TRUE, stats |-> ZeroStats, patchHistory |-> << >>]

----------------------------------------------------------------------------
(* Direction of a patch entry *)

\* changes.filter((c) => c.changeType === t).length
CountType(changes, t) ==
    Cardinality({i \in 1..Len(changes) : changes[i].changeType = t})

determineOverallChange(changes) ==
    LET buffCount == CountType(changes, "buff")
        nerfCount == CountType(changes, "nerf")
    IN  IF buffCount > 0 /\ nerfCount = 0 THEN "buff"
        ELSE IF nerfCount > 0 /\ buffCount = 0 THEN "nerf"
        ELSE "mixed"

\* "null" when the comment is absent, empty, or matches neither or both lists
extractIntentFromComment(comment) ==
    IF comment.isNull \/ comment.len = 0 THEN "null"
    ELSE IF comment.nerfKw /\ ~comment.buffKw THEN "nerf"
    ELSE IF comment.buffKw /\ ~comment.nerfKw THEN "buff"
    ELSE "null"

\* mutant of determineOverallChangeWithComment: the comment is asked first
determineOverallChangeCommentFirst(changes, comment) ==
    LET result == determineOverallChange(changes)
        intent == extractIntentFromComment(comment)
    IN  IF ~comment.isNull /\ comment.len > 0 /\ intent # "null"
        THEN intent
        ELSE result

determineOverallChangeWithComment(changes, comment) ==
    LET result == determineOverallChange(changes)
        intent == extractIntentFromComment(comment)
    IN  IF result = "mixed" /\ ~comment.isNull /\ comment.len > 0 /\ intent # "null"
        THEN intent
        ELSE result

----------------------------------------------------------------------------
(* Aggregators of the ingestion / repair scripts *)

\* mutant of CountStep: mixed entries are not counted
CountStepNoMixed(stats, patch) ==
    IF patch.overallChange = "buff" THEN [stats EXCEPT !.buffCount = @ + 1]
    ELSE IF patch.overallChange = "nerf" THEN [stats EXCEPT !.nerfCount = @ + 1]
    ELSE stats

\* if buff: buffCount++ / else if nerf: nerfCount++ / else mixedCount++
CountStep(stats, patch) ==
    IF patch.overallChange = "buff" THEN [stats EXCEPT !.buffCount = @ + 1]
    ELSE IF patch.overallChange = "nerf" THEN [stats EXCEPT !.nerfCount = @ + 1]
    ELSE [stats EXCEPT !.mixedCount = @ + 1]

\* the run that ends is folded into the max of its direction
CloseRun(stats, type, count) ==
    IF type = "buff" THEN [stats EXCEPT !.maxBuffStreak = Max(@, count)]
    ELSE IF type = "nerf" THEN [stats EXCEPT !.maxNerfStreak = Max(@, count)]
    ELSE stats

\* one iteration of calculateStats' loop; acc = [stats, type, count]
calculateStatsStep(acc, patch) ==
    LET counted == CountStep(acc.stats, patch)
    IN  IF patch.overallChange \in {"buff", "nerf"}
        THEN IF acc.type = patch.overallChange
             THEN [acc EXCEPT !.stats = counted, !.count = @ + 1]
             ELSE [ stats |-> CloseRun(counted, acc.type, acc.count),
                    type |-> patch.overallChange,
                    count |-> 1 ]
        ELSE [acc EXCEPT !.stats = counted]

RECURSIVE calculateStatsLoop(_, _)
calculateStatsLoop(acc, chronological) ==
    IF chronological = << >> THEN acc
    ELSE calculateStatsLoop(calculateStatsStep(acc, Head(chronological)),
                            Tail(chronological))

\* mutant of FinishStats: the last run is not folded into its max
FinishStatsOpenRun(acc) ==
    [ acc.stats EXCEPT !.currentStreak = [type |-> acc.type, count |-> acc.count] ]

\* what follows the loop: close the last run, publish the current streak
FinishStats(acc) ==
    [ CloseRun(acc.stats, acc.type, acc.count)
        EXCEPT !.currentStreak = [type |-> acc.type, count |-> acc.count] ]

calculateStats(patchHistory) ==
    LET stats0 == [ZeroStats EXCEPT !.totalPatches = Len(patchHistory)]
    IN  IF Len(patchHistory) = 0 THEN stats0
        ELSE FinishStats(calculateStatsLoop(
                [stats |-> stats0, type |-> "null", count |-> 0],
                Reverse(patchHistory)))

\* mutant of calculateStreaksStep: a mixed entry ends the run
calculateStreaksStepReset(acc, patch) ==
    IF patch.overallChange \in {"buff", "nerf"}
    THEN LET n == IF acc.type = patch.overallChange THEN acc.count + 1 ELSE 1
         IN  [ result |-> Append(acc.result, [patch EXCEPT !.streak = n]),
               type |-> patch.overallChange,
               count |-> n ]
    ELSE [ result |-> Append(acc.result, [patch EXCEPT !.streak = 1]),
           type |-> "null",
           count |-> 0 ]

\* one iteration of calculateStreaks' loop; acc = [result, type, count]
calculateStreaksStep(acc, patch) ==
    IF patch.overallChange \in {"buff", "nerf"}
    THEN LET n == IF acc.type = patch.overallChange THEN acc.count + 1 ELSE 1
         IN  [ result |-> Append(acc.result, [patch EXCEPT !.streak = n]),
               type |-> patch.overallChange,
               count |-> n ]
    ELSE [acc EXCEPT !.result = Append(@, [patch EXCEPT !.streak = 1])]

RECURSIVE calculateStreaksLoop(_, _)
calculateStreaksLoop(acc, chronological) ==
    IF chronological = << >> THEN acc
    ELSE calculateStreaksLoop(calculateStreaksStep(acc, Head(chronological)),
                              Tail(chronological))

calculateStreaks(patchHistory) ==
    Reverse(calculateStreaksLoop(
                [result |-> << >>, type |-> "null", count |-> 0],
                Reverse(patchHistory)).result)

----------------------------------------------------------------------------
(* Aggregators of the admin API *)

\* one iteration of recalculateStats' loop; acc = [stats, type, count]
recalculateStatsStep(acc, patch) ==
    LET counted == CountStep(acc.stats, patch)
    IN  IF patch.overallChange \in {"buff", "nerf"}
        THEN IF acc.type = patch.overallChange
             THEN [acc EXCEPT !.stats = counted, !.count = @ + 1]
             ELSE [ stats |-> CloseRun(counted, acc.type, acc.count),
                    type |-> patch.overallChange,
                    count |-> 1 ]
        ELSE [ stats |-> CloseRun(counted, acc.type, acc.count),
               type |-> "null",
               count |-> 0 ]

RECURSIVE recalculateStatsLoop(_, _)
recalculateStatsLoop(acc, chronological) ==
    IF chronological = << >> THEN acc
    ELSE recalculateStatsLoop(recalculateStatsStep(acc, Head(chronological)),
                              Tail(chronological))

recalculateStats(patchHistory) ==
    LET stats0 == [ZeroStats EXCEPT !.totalPatches = Len(patchHistory)]
    IN  IF Len(patchHistory) = 0 THEN stats0
        ELSE FinishStats(recalculateStatsLoop(
                [stats |-> stats0, type |-> "null", count |-> 0],
                SortOldestFirst(patchHistory)))

\* one iteration of a streak loop of the admin API; acc = [result, type, count].
\* stamp = FALSE is the loop over the entries before the changed one, which
\* only tracks the run
adminStreakStep(acc, patch, stamp) ==
    IF patch.overallChange \in {"buff", "nerf"}
    THEN LET n == IF acc.type = patch.overallChange THEN acc.count + 1 ELSE 1
         IN  [ result |-> Append(acc.result,
                             IF stamp THEN [patch EXCEPT !.streak = n] ELSE patch),
               type |-> patch.overallChange,
               count |-> n ]
    ELSE [ result |-> Append(acc.result,
                             IF stamp THEN [patch EXCEPT !.streak = 1] ELSE patch),
           type |-> "null",
           count |-> 0 ]

RECURSIVE adminStreakLoop(_, _, _, _)
\* entries i, i+1, ... of chronological; those at index >= from are stamped
adminStreakLoop(acc, chronological, i, from) ==
    IF i > Len(chronological) THEN acc
    ELSE adminStreakLoop(adminStreakStep(acc, chronological[i], i >= from),
                         chronological, i + 1, from)

recalculateAllStreaks(patchHistory) ==
    IF Len(patchHistory) = 0 THEN patchHistory
    ELSE SortNewestFirst(adminStreakLoop(
            [result |-> << >>, type |-> "null", count |-> 0],
            SortOldestFirst(patchHistory), 1, 1).result)

\* mutant of recalculateStreaksFromIndex: the run that ends just before the
\* changed entry is not carried into it
recalculateStreaksFromIndexNoCarry(patchHistory, changedPatchId) ==
    IF Len(patchHistory) = 0 THEN patchHistory
    ELSE LET chronological == SortOldestFirst(patchHistory)
             changedIndex == FindIndex(chronological, changedPatchId)
         IN  IF changedIndex = 0 THEN SortNewestFirst(chronological)
             ELSE SortNewestFirst(adminStreakLoop(
                    [result |-> SubSeq(chronological, 1, changedIndex - 1),
                     type |-> "null", count |-> 0],
                    chronological, changedIndex, changedIndex).result)

recalculateStreaksFromIndex(patchHistory, changedPatchId) ==
    IF Len(patchHistory) = 0 THEN patchHistory
    ELSE LET chronological == SortOldestFirst(patchHistory)
             changedIndex == FindIndex(chronological, changedPatchId)
         IN  IF changedIndex = 0 THEN SortNewestFirst(chronological)
             ELSE SortNewestFirst(adminStreakLoop(
                    [result |-> << >>, type |-> "null", count |-> 0],
                    chronological, 1, changedIndex).result)

----------------------------------------------------------------------------
(* Streak stamped by apply-fixes *)

\* history = the entries stored after the edited one (the older ones)
calculateStreak(history, newOverall) ==
    IF Len(history) = 0
    THEN (IF newOverall = "buff" THEN 1 ELSE IF newOverall = "nerf" THEN -1 ELSE 0)
    ELSE LET lastStreak == history[1].streak
         IN  IF newOverall = "mixed" THEN 0
             ELSE IF newOverall = "buff"
                  THEN (IF lastStreak > 0 THEN lastStreak + 1 ELSE 1)
                  ELSE (IF lastStreak < 0 THEN lastStreak - 1 ELSE -1)

----------------------------------------------------------------------------
(* Source documents: the character section of a release note *)

VALID_CHARACTERS == {"Aya", "Debi & Marlene"}

\* collapses the whitespace runs of a name
normalizeCharacterName(name) ==
    IF name = "Debi  & Marlene" THEN "Debi & Marlene" ELSE name

isValidCharacter(name) == normalizeCharacterName(name) \in VALID_CHARACTERS

\* bold paragraphs that are section titles, not character names
SectionTitles == {"Weapon", "Item", "System"}

\* what the list-item branch excludes on top of the section titles
HotfixExcluded == SectionTitles \cup {"Clothes", "Head"}

\* <p><span><strong>name</strong></span></p>, span text = strong text, Hangul
NameP(n) == [tag |-> "P", kind |-> "name", name |-> n, comment |-> NoComment,
             items |-> << >>]

\* a paragraph that passes the four comment tests
CommentP(c) == [tag |-> "P", kind |-> "comment", name |-> "", comment |-> c,
                items |-> << >>]

\* a paragraph that fails one of them (an arrow, too short, a skill header, ...)
OtherP == [tag |-> "P", kind |-> "other", name |-> "", comment |-> NoComment,
           items |-> << >>]

UL(lis) == [tag |-> "UL", kind |-> "", name |-> "", comment |-> NoComment,
            items |-> lis]

\* list items, by what their header text is:
\*   name        a bold character name (hotfix dialect)
\*   skill       a skill header name(slot)
\*   numeric     has an arrow and matches numericPattern; ct = its direction
\*   nomatch     has an arrow, numericPattern fails
\*   description no arrow, longer than 10
\*   short       anything shorter than the thresholds
NameLi(n, nested) == [kind |-> "name", name |-> n, ct |-> "mixed", nested |-> nested]

SkillLi(nested) == [kind |-> "skill", name |-> "", ct |-> "mixed", nested |-> nested]

NumericLi(ct) == [kind |-> "numeric", name |-> "", ct |-> ct, nested |-> << >>]

NoMatchLi == [kind |-> "nomatch", name |-> "", ct |-> "mixed", nested |-> << >>]

DescriptionLi == [kind |-> "description", name |-> "", ct |-> "mixed", nested |-> << >>]

NestingLi(kind, ct, nested) == [kind |-> kind, name |-> "", ct |-> ct, nested |-> nested]

\* the change a statement contributes, after the final map of parsePatchNote
LiChange(li) ==
    IF li.kind = "numeric" THEN << NumericChange(li.ct) >>
    ELSE IF li.kind = "description" THEN << DescriptionChange >>
    ELSE << >>

RECURSIVE Descendants(_)
\* topLi.querySelectorAll('li'): every descendant item, in document order
Descendants(lis) ==
    IF lis = << >> THEN << >>
    ELSE << Head(lis) >> \o Descendants(Head(lis).nested) \o Descendants(Tail(lis))

RECURSIVE ChangesOf(_)
ChangesOf(lis) ==
    IF lis = << >> THEN << >> ELSE LiChange(Head(lis)) \o ChangesOf(Tail(lis))

RECURSIVE NumericOnly(_)
\* the hotfix branch keeps only the arrow statements of the nested list
NumericOnly(lis) ==
    IF lis = << >> THEN << >>
    ELSE (IF Head(lis).kind = "numeric" THEN LiChange(Head(lis)) ELSE << >>)
         \o NumericOnly(Tail(lis))

RECURSIVE JoinComments(_)
\* currentDevComment.join(' ')
JoinComments(cs) ==
    IF Len(cs) = 1 THEN cs[1]
    ELSE LET rest == JoinComments(Tail(cs))
         IN  Comment(cs[1].len + 1 + rest.len,
                     cs[1].nerfKw \/ rest.nerfKw,
                     cs[1].buffKw \/ rest.buffKw)

\* parser state: results, currentCharName ("" = none), currentDevComment,
\* currentChanges
ParserInit ==
    [results |-> << >>, currentCharName |-> "", currentDevComment |-> << >>,
     currentChanges |-> << >>]

\* if (currentCharName && currentChanges.length > 0) results.push(...)
Flush(st) ==
    IF st.currentCharName # "" /\ Len(st.currentChanges) > 0
    THEN Append(st.results,
                [ name |-> st.currentCharName,
                  devComment |-> IF Len(st.currentDevComment) > 0
                                 THEN JoinComments(st.currentDevComment)
                                 ELSE NoComment,
                  changes |-> st.currentChanges ])
    ELSE st.results

\* the previous block is saved and a new one starts
StartCharacter(st, n) ==
    [results |-> Flush(st), currentCharName |-> n, currentDevComment |-> << >>,
     currentChanges |-> << >>]

\* a top-level P element
ParseP(st, el) ==
    IF el.kind = "name" /\ el.name \notin SectionTitles
    THEN StartCharacter(st, el.name)
    ELSE IF st.currentCharName # "" /\ el.kind = "comment"
         THEN [st EXCEPT !.currentDevComment = Append(@, el.comment)]
         ELSE st

\* one top-level LI of parse-balance-changes
ParseTopLi(st, li) ==
    IF li.kind = "name" /\ li.name \notin HotfixExcluded
    THEN [StartCharacter(st, li.name) EXCEPT
            !.currentChanges = NumericOnly(li.nested)]
    ELSE IF st.currentCharName = "" THEN st
    ELSE [st EXCEPT !.currentChanges =
            @ \o LiChange(li) \o ChangesOf(Descendants(li.nested))]

RECURSIVE ParseLis(_, _)
ParseLis(st, lis) ==
    IF lis = << >> THEN st ELSE ParseLis(ParseTopLi(st, Head(lis)), Tail(lis))

RECURSIVE ParseElements(_, _)
ParseElements(st, els) ==
    IF els = << >> THEN st
    ELSE ParseElements(
            IF Head(els).tag = "P" THEN ParseP(st, Head(els))
            ELSE ParseLis(st, Head(els).items),
            Tail(els))

RECURSIVE FilterValid(_)
\* .filter((char) => isValidCharacter(char.name)).map(... normalize ...)
FilterValid(results) ==
    IF results = << >> THEN << >>
    ELSE (IF isValidCharacter(Head(results).name)
          THEN << [Head(results) EXCEPT !.name = normalizeCharacterName(@)] >>
          ELSE << >>) \o FilterValid(Tail(results))

\* parsePatchNote of parse-balance-changes.ts on a character section
parsePatchNote(content) ==
    FilterValid(Flush(ParseElements(ParserInit, content)))

\* one top-level LI of reparse-patches: no hotfix branch, one level of nesting
ReparseTopLi(st, li) ==
    [st EXCEPT !.currentChanges = @ \o LiChange(li) \o ChangesOf(li.nested)]

RECURSIVE ReparseLis(_, _)
ReparseLis(st, lis) ==
    IF lis = << >> THEN st ELSE ReparseLis(ReparseTopLi(st, Head(lis)), Tail(lis))

RECURSIVE ReparseElements(_, _)
ReparseElements(st, els) ==
    IF els = << >> THEN st
    ELSE ReparseElements(
            IF Head(els).tag = "P" THEN ParseP(st, Head(els))
            ELSE IF st.currentCharName # "" THEN ReparseLis(st, Head(els).items)
            ELSE st,
            Tail(els))

\* parsePatchNote of reparse-patches.ts on a character section
reparsePatchNote(content) ==
    FilterValid(Flush(ReparseElements(ParserInit, content)))

----------------------------------------------------------------------------
(* The published release notes *)

\* 1: two characters, flat dialect
Content1 ==
    << NameP("Aya"), CommentP(Comment(12, TRUE, FALSE)),
       UL(<< NumericLi("nerf"), NoMatchLi >>),
       NameP("Debi  & Marlene"), UL(<< NumericLi("buff") >>) >>

\* 2: Aya as a paragraph header and again as a hotfix list item
Content2 ==
    << NameP("Aya"), UL(<< NumericLi("buff"), DescriptionLi >>),
       UL(<< NameLi("Aya", << NumericLi("nerf"), DescriptionLi >>) >>) >>

\* 3: a sub-header shaped like a name, two levels of nesting, an empty block
Content3 ==
    << NameP("Clothes"), UL(<< NumericLi("buff") >>),
       NameP("Debi & Marlene"), OtherP, CommentP(Comment(20, TRUE, FALSE)),
       UL(<< SkillLi(<< NestingLi("numeric", "nerf", << NumericLi("buff") >>) >>) >>),
       NameP("Aya"), UL(<< SkillLi(<< >>) >>),
       NameP("Weapon"), UL(<< NumericLi("nerf") >>) >>

\* the ids of the patchNotes collection; 4 is an announcement without
\* character data
PatchIds == {1, 2, 3, 4}

\* ids an input file may name although no patch note has them
UnknownPatchIds == {9}

Documents ==
    [ id \in PatchIds |->
        IF id = 1 THEN [createdAt |-> 1, content |-> Content1, hasCharacterData |-> TRUE]
        ELSE IF id = 2 THEN [createdAt |-> 2, content |-> Content2, hasCharacterData |-> TRUE]
        ELSE IF id = 3 THEN [createdAt |-> 2, content |-> Content3, hasCharacterData |-> TRUE]
        ELSE [createdAt |-> 3, content |-> << >>, hasCharacterData |-> FALSE] ]

RECURSIVE SortIdsDesc(_)
\* ids in descending order (orderBy('id', 'desc'); sort((a, b) => b - a))
SortIdsDesc(ids) ==
    IF ids = {} THEN << >>
    ELSE LET m == CHOOSE x \in ids : \A y \in ids : y <= x
         IN  << m >> \o SortIdsDesc(ids \ {m})

----------------------------------------------------------------------------
(* What an operation reports when it ends *)

\* an Authorization header: present or not, with the Bearer prefix or not,
\* the token one verifyIdToken accepts or not, and the e-mail of the token
Header(present, bearer, valid, email) ==
    [present |-> present, bearer |-> bearer, valid |-> valid, email |-> email]

NoHeader == Header(FALSE, FALSE, FALSE, "")

Out(op) ==
    [ op |-> op, n |-> 0, force |-> FALSE, dryRun |-> FALSE, status |-> 200,
      touched |-> {}, targets |-> << >>, auth |-> NoHeader, target |-> << >> ]

----------------------------------------------------------------------------
(* parse-balance-changes.ts main(): the ingestion run *)

getUnparsedPatchNotes ==
    SortIdsDesc({ id \in PatchIds :
                    /\ patchNotes[id].hasCharacterData
                    /\ patchNotes[id].status = "success"
                    /\ ~patchNotes[id].isParsed })

\* the body of `for (const char of characters)` for one parsed character
PushEntry(map, char, patchId) ==
    LET key == char.name
        cur == IF map[key].exists THEN map[key] ELSE NewCharacter
        entry == [ patchId |-> patchId,
                   patchDate |-> Documents[patchId].createdAt,
                   overallChange |->
                       determineOverallChangeWithComment(char.changes, char.devComment),
                   streak |-> 0,
                   devComment |-> char.devComment,
                   changes |-> char.changes ]
    IN  [map EXCEPT ![key] = [cur EXCEPT !.patchHistory = Append(@, entry)]]

RECURSIVE PushAll(_, _, _)
PushAll(map, chars, patchId) ==
    IF chars = << >> THEN map
    ELSE PushAll(PushEntry(map, Head(chars), patchId), Tail(chars), patchId)

\* mutant of Recompute: the history is not sorted before it is aggregated
RecomputeUnsorted(char) ==
    LET h == calculateStreaks(char.patchHistory)
    IN  [char EXCEPT !.patchHistory = h, !.stats = calculateStats(h)]

\* sort newest first, then calculateStreaks, then calculateStats
Recompute(char) ==
    LET h == calculateStreaks(SortNewestFirst(char.patchHistory))
    IN  [char EXCEPT !.patchHistory = h, !.stats = calculateStats(h)]

\* batch.set for every entry of the in-memory map
saveCharacters(map) ==
    [ c \in VALID_CHARACTERS |-> IF map[c].exists THEN map[c] ELSE characters[c] ]

NamesOf(chars) == { chars[i].name : i \in 1..Len(chars) }

IngestStart ==
    /\ ingPc = "idle"
    /\ characterMap' = characters
    /\ unparsedPatches' = getUnparsedPatchNotes
    /\ affectedCharacters' = {}
    /\ ingIdx' = 1
    /\ IF getUnparsedPatchNotes = << >>
       THEN /\ ingPc' = "idle"
            /\ out' = Out("ingest")
            /\ recovery' = [recovery EXCEPT !.rerun = TRUE]
       ELSE /\ ingPc' = "parse"
            /\ UNCHANGED << out, recovery >>
    /\ UNCHANGED << characters, patchNotes, fixesFile, ops >>
    /\ UNCHANGED << aggVars, missingFile >>

IngestParse ==
    /\ ingPc = "parse"
    /\ LET patch == unparsedPatches[ingIdx]
           parsed == parsePatchNote(Documents[patch].content)
       IN  /\ characterMap' = PushAll(characterMap, parsed, patch)
           /\ affectedCharacters' = affectedCharacters \cup NamesOf(parsed)
    /\ ingPc' = "mark"
    /\ UNCHANGED << characters, patchNotes, unparsedPatches, ingIdx, fixesFile,
                    out, recovery, ops >>
    /\ UNCHANGED << aggVars, missingFile >>

IngestMark ==
    /\ ingPc = "mark"
    /\ patchNotes' = [patchNotes EXCEPT ![unparsedPatches[ingIdx]].isParsed = TRUE]
    /\ IF ingIdx < Len(unparsedPatches)
       THEN ingPc' = "parse" /\ ingIdx' = ingIdx + 1
       ELSE ingPc' = "finish" /\ ingIdx' = ingIdx
    /\ UNCHANGED << characters, characterMap, unparsedPatches, affectedCharacters,
                    fixesFile, out, recovery, ops >>
    /\ UNCHANGED << aggVars, missingFile >>

IngestFinish ==
    /\ ingPc = "finish"
    /\ LET recomputed ==
            [ c \in VALID_CHARACTERS |->
                IF c \in affectedCharacters THEN Recompute(characterMap[c])
                ELSE characterMap[c] ]
       IN  /\ characters' = saveCharacters(recomputed)
           /\ out' = [Out("ingest") EXCEPT !.n = Len(unparsedPatches),
                                           !.targets = unparsedPatches]
    /\ ingPc' = "idle"
    /\ characterMap' = [c \in VALID_CHARACTERS |-> NoCharacter]
    /\ unparsedPatches' = << >>
    /\ affectedCharacters' = {}
    /\ ingIdx' = 1
    /\ recovery' = [recovery EXCEPT !.rerun = TRUE]
    /\ UNCHANGED << patchNotes, fixesFile, ops >>
    /\ UNCHANGED << aggVars, missingFile >>

\* the process dies: what it held in memory is gone
Crash ==
    /\ ingPc # "idle"
    /\ ingPc' = "idle"
    /\ recovery' = [ selected |-> recovery.selected \cup SeqToSet(unparsedPatches),
                     rerun |-> FALSE ]
    /\ characterMap' = [c \in VALID_CHARACTERS |-> NoCharacter]
    /\ unparsedPatches' = << >>
    /\ affectedCharacters' = {}
    /\ ingIdx' = 1
    /\ UNCHANGED << characters, patchNotes, fixesFile, out, ops >>
    /\ UNCHANGED << aggVars, missingFile >>

----------------------------------------------------------------------------
(* fix-duplicate-patches.ts and find-duplicate-patches.ts *)

\* mutant of uniqueStep: a later entry with a seen patchId replaces the kept one
uniqueStepKeepLast(acc, patch) ==
    IF patch.patchId \in acc.seenPatchIds
    THEN [acc EXCEPT
            !.uniquePatches =
                [i \in 1..Len(@) |-> IF @[i].patchId = patch.patchId THEN patch ELSE @[i]],
            !.duplicatesRemoved = @ + 1]
    ELSE [ seenPatchIds |-> acc.seenPatchIds \cup {patch.patchId},
           uniquePatches |-> Append(acc.uniquePatches, patch),
           duplicatesRemoved |-> acc.duplicatesRemoved ]

\* mutant of uniqueStep: a patchId is never recorded as seen
uniqueStepNoSeen(acc, patch) ==
    IF patch.patchId \in acc.seenPatchIds
    THEN [acc EXCEPT !.duplicatesRemoved = @ + 1]
    ELSE [ seenPatchIds |-> acc.seenPatchIds,
           uniquePatches |-> Append(acc.uniquePatches, patch),
           duplicatesRemoved |-> acc.duplicatesRemoved ]

\* the body of `for (const patch of charData.patchHistory)`
uniqueStep(acc, patch) ==
    IF patch.patchId \in acc.seenPatchIds
    THEN [acc EXCEPT !.duplicatesRemoved = @ + 1]
    ELSE [ seenPatchIds |-> acc.seenPatchIds \cup {patch.patchId},
           uniquePatches |-> Append(acc.uniquePatches, patch),
           duplicatesRemoved |-> acc.duplicatesRemoved ]

RECURSIVE uniqueLoop(_, _)
uniqueLoop(acc, h) ==
    IF h = << >> THEN acc ELSE uniqueLoop(uniqueStep(acc, Head(h)), Tail(h))

\* [seenPatchIds, uniquePatches, duplicatesRemoved] for one history
Deduplicate(patchHistory) ==
    uniqueLoop([seenPatchIds |-> {}, uniquePatches |-> << >>, duplicatesRemoved |-> 0],
               patchHistory)

RECURSIVE SumOver(_, _)
SumOver(f, S) ==
    IF S = {} THEN 0
    ELSE LET x == CHOOSE y \in S : TRUE IN f[x] + SumOver(f, S \ {x})

ExistingNames(store) == { c \in VALID_CHARACTERS : store[c].exists }

\* totalFixed of a run of fixDuplicatePatches over `store`
totalFixedOf(store) ==
    SumOver([c \in VALID_CHARACTERS |-> Deduplicate(store[c].patchHistory).duplicatesRemoved],
            ExistingNames(store))

\* the documents a run of fixDuplicatePatches over `store` updates
writtenBy(store) ==
    { c \in ExistingNames(store) :
        Deduplicate(store[c].patchHistory).duplicatesRemoved > 0 }

\* only patchHistory is updated
fixDuplicatesStore(store) ==
    [ c \in VALID_CHARACTERS |->
        IF c \in writtenBy(store)
        THEN [store[c] EXCEPT !.patchHistory = Deduplicate(@).uniquePatches]
        ELSE store[c] ]

FixDuplicatePatches ==
    /\ ingPc = "idle"
    /\ ops < MaxOps
    /\ ops' = ops + 1
    /\ characters' = fixDuplicatesStore(characters)
    /\ out' = [Out("fixDuplicates") EXCEPT !.n = totalFixedOf(characters),
                                           !.touched = writtenBy(characters)]
    /\ UNCHANGED << patchNotes, ingPc, characterMap, unparsedPatches, ingIdx,
                    affectedCharacters, fixesFile, recovery >>
    /\ UNCHANGED << aggVars, missingFile >>

\* patchIdCounts, then the sum of count - 1 over the ids with count > 1
duplicatesOf(patchHistory) ==
    LET ids == { patchHistory[i].patchId : i \in 1..Len(patchHistory) }
        patchIdCounts == [id \in ids |-> CountWhere(patchHistory, id)]
        duplicates == { id \in ids : patchIdCounts[id] > 1 }
    IN  SumOver([id \in ids |-> patchIdCounts[id] - 1], duplicates)

\* totalDuplicates of a run of findDuplicatePatches over `store`
totalDuplicatesOf(store) ==
    SumOver([c \in VALID_CHARACTERS |-> duplicatesOf(store[c].patchHistory)],
            ExistingNames(store))

FindDuplicatePatches ==
    /\ ingPc = "idle"
    /\ ops < MaxOps
    /\ ops' = ops + 1
    /\ out' = [Out("findDuplicates") EXCEPT !.n = totalDuplicatesOf(characters)]
    /\ UNCHANGED << characters, patchNotes, ingPc, characterMap, unparsedPatches,
                    ingIdx, affectedCharacters, fixesFile, recovery >>
    /\ UNCHANGED << aggVars, missingFile >>

----------------------------------------------------------------------------
(* reparse-patches.ts main(): stage corrected parses in data/patch-fixes.json *)

\* mutant of shouldReplace: an equal change count already counts as improved
shouldReplaceOrEqual(forceReplace, newChangeCount, oldChangeCount, newCommentLength, oldCommentLength) ==
    forceReplace \/ newChangeCount >= oldChangeCount
                 \/ newCommentLength > oldCommentLength

shouldReplace(forceReplace, newChangeCount, oldChangeCount, newCommentLength, oldCommentLength) ==
    forceReplace \/ newChangeCount > oldChangeCount
                 \/ newCommentLength > oldCommentLength

\* the patch ids found in the stored histories, descending
getAllPatchIds ==
    SortIdsDesc(UNION { { characters[c].patchHistory[i].patchId :
                            i \in 1..Len(characters[c].patchHistory) } :
                        c \in ExistingNames(characters) })

\* targets.slice(0, limit) when limit is given (0 = not given)
SliceLimit(list, limit) ==
    IF limit = 0 \/ limit >= Len(list) THEN list ELSE SubSeq(list, 1, limit)

\* the body of `for (const parsed of newParsed)`: fixes with at most one more
reparseOne(fixes, parsed, patchId, forceReplace) ==
    LET existingChar == characters[parsed.name]
        idx == FindIndex(existingChar.patchHistory, patchId)
    IN  IF ~existingChar.exists \/ idx = 0 THEN fixes
        ELSE LET existingPatch == existingChar.patchHistory[idx]
                 oldChangeCount == Len(existingPatch.changes)
                 newChangeCount == Len(parsed.changes)
                 oldCommentLength == CommentLength(existingPatch.devComment)
                 newCommentLength == CommentLength(parsed.devComment)
             IN  IF shouldReplace(forceReplace, newChangeCount, oldChangeCount,
                                  newCommentLength, oldCommentLength)
                 THEN Append(fixes,
                        [ characterName |-> parsed.name,
                          patchId |-> patchId,
                          newData |-> [devComment |-> parsed.devComment,
                                       changes |-> parsed.changes],
                          diff |-> [oldCommentLength |-> oldCommentLength,
                                    newCommentLength |-> newCommentLength,
                                    oldChangeCount |-> oldChangeCount,
                                    newChangeCount |-> newChangeCount] ])
                 ELSE fixes

RECURSIVE reparseParsed(_, _, _, _)
reparseParsed(fixes, newParsed, patchId, forceReplace) ==
    IF newParsed = << >> THEN fixes
    ELSE reparseParsed(reparseOne(fixes, Head(newParsed), patchId, forceReplace),
                       Tail(newParsed), patchId, forceReplace)

RECURSIVE reparseLoop(_, _, _)
\* the loop over targetPatches; a patch id without a patch note is skipped
reparseLoop(fixes, targetPatches, forceReplace) ==
    IF targetPatches = << >> THEN fixes
    ELSE LET patchId == Head(targetPatches)
         IN  reparseLoop(
                IF patchId \notin PatchIds THEN fixes
                ELSE reparseParsed(fixes, reparsePatchNote(Documents[patchId].content),
                                   patchId, forceReplace),
                Tail(targetPatches), forceReplace)

\* the lists data/patches-to-reparse.json may hold
ReparseFiles == { << 9, 3, 2 >>, << 1 >> }

\* mutant of Reparse: the run also writes every staged fix into the store
ReparseAutoApply ==
    /\ ingPc = "idle"
    /\ ops < MaxOps
    /\ ops' = ops + 1
    /\ \E allMode \in BOOLEAN, forceReplace \in BOOLEAN, limit \in {0, 1},
          file \in ReparseFiles :
          LET patchIds == IF allMode THEN getAllPatchIds ELSE file
              targetPatches == SliceLimit(patchIds, limit)
              fixes == reparseLoop(<< >>, targetPatches, forceReplace)
              written(c, e) ==
                  IF \E k \in 1..Len(fixes) : /\ fixes[k].characterName = c
                                              /\ fixes[k].patchId = e.patchId
                  THEN LET k == CHOOSE k \in 1..Len(fixes) :
                                    /\ fixes[k].characterName = c
                                    /\ fixes[k].patchId = e.patchId
                       IN  [e EXCEPT !.changes = fixes[k].newData.changes,
                                     !.devComment = fixes[k].newData.devComment]
                  ELSE e
          IN  /\ fixesFile' = fixes
              /\ characters' =
                    [ c \in VALID_CHARACTERS |->
                        [ characters[c] EXCEPT !.patchHistory =
                            [ i \in 1..Len(characters[c].patchHistory) |->
                                written(c, characters[c].patchHistory[i]) ] ] ]
              /\ out' = [Out("reparse") EXCEPT
                            !.n = Len(fixes),
                            !.force = forceReplace,
                            !.targets = targetPatches]
    /\ UNCHANGED << patchNotes, ingPc, characterMap, unparsedPatches,
                    ingIdx, affectedCharacters, recovery >>
    /\ UNCHANGED << aggVars, missingFile >>

Reparse ==
    /\ ingPc = "idle"
    /\ ops < MaxOps
    /\ ops' = ops + 1
    /\ \E allMode \in BOOLEAN, forceReplace \in BOOLEAN, limit \in {0, 1},
          file \in ReparseFiles :
          LET patchIds == IF allMode THEN getAllPatchIds ELSE file
              targetPatches == SliceLimit(patchIds, limit)
          IN  /\ fixesFile' = reparseLoop(<< >>, targetPatches, forceReplace)
              /\ out' = [Out("reparse") EXCEPT
                            !.n = Len(fixesFile'),
                            !.force = forceReplace,
                            !.targets = targetPatches]
    /\ UNCHANGED << characters, patchNotes, ingPc, characterMap, unparsedPatches,
                    ingIdx, affectedCharacters, recovery >>
    /\ UNCHANGED << aggVars, missingFile >>

----------------------------------------------------------------------------
(* apply-fixes: write the staged fixes into the stored histories *)

\* the body of `for (const fix of characterFixes)`; acc = [h, applied]
applyOne(acc, fix) ==
    LET patchIndex == FindIndex(acc.h, fix.patchId)
    IN  IF patchIndex = 0 THEN acc
        ELSE LET existingPatch == acc.h[patchIndex]
                 newOverall == determineOverallChange(fix.newData.changes)
                 previousPatches == SubSeq(acc.h, patchIndex + 1, Len(acc.h))
                 newStreak == calculateStreak(previousPatches, newOverall)
                 updatedPatch == [existingPatch EXCEPT
                                    !.devComment = fix.newData.devComment,
                                    !.changes = fix.newData.changes,
                                    !.overallChange = newOverall,
                                    !.streak = newStreak]
             IN  [ h |-> [acc.h EXCEPT ![patchIndex] = updatedPatch],
                   applied |-> acc.applied \cup {fix.patchId} ]

RECURSIVE applyLoop(_, _, _)
\* the fixes of `fixes` that name character c, in file order
applyLoop(acc, fixes, c) ==
    IF fixes = << >> THEN acc
    ELSE applyLoop(IF Head(fixes).characterName = c THEN applyOne(acc, Head(fixes))
                   ELSE acc,
                   Tail(fixes), c)

\* fixes.filter((f) => f.characterName === characterFilter); "" = no filter
FilterFixes(fixes, characterFilter) ==
    IF characterFilter = "" THEN fixes
    ELSE SelectSeq(fixes, LAMBDA f : f.characterName = characterFilter)

ApplyFixes ==
    /\ ingPc = "idle"
    /\ ops < MaxOps
    /\ ops' = ops + 1
    /\ \E dryRun \in BOOLEAN, characterFilter \in {""} \cup VALID_CHARACTERS,
          limit \in {0, 1} :
          LET fixes == SliceLimit(FilterFixes(fixesFile, characterFilter), limit)
              result == [ c \in VALID_CHARACTERS |->
                            IF characters[c].exists
                            THEN applyLoop([h |-> characters[c].patchHistory,
                                            applied |-> {}], fixes, c)
                            ELSE [h |-> << >>, applied |-> {}] ]
              modified == { c \in VALID_CHARACTERS : result[c].applied # {} }
          IN  /\ characters' =
                    [ c \in VALID_CHARACTERS |->
                        IF c \in modified /\ ~dryRun
                        THEN [characters[c] EXCEPT !.patchHistory = result[c].h]
                        ELSE characters[c] ]
              /\ out' = [Out("applyFixes") EXCEPT
                            !.n = Cardinality(modified),
                            !.dryRun = dryRun,
                            !.touched = UNION { { << c, id >> : id \in result[c].applied } :
                                                c \in modified }]
    /\ UNCHANGED << patchNotes, ingPc, characterMap, unparsedPatches, ingIdx,
                    affectedCharacters, fixesFile, recovery >>
    /\ UNCHANGED << aggVars, missingFile >>

----------------------------------------------------------------------------
(* Admin API: PATCH one entry, POST a streak recalculation *)

\* metadata/admins: the e-mails of the administrators
AdminEmails == {"admin@"}

\* the headers a request can carry: none, one without the Bearer prefix, a
\* token verifyIdToken rejects, a token without e-mail, the token of a user
\* who is not an administrator, the token of an administrator
AuthHeaders ==
    { NoHeader, Header(TRUE, FALSE, FALSE, ""), Header(TRUE, TRUE, FALSE, ""),
      Header(TRUE, TRUE, TRUE, ""), Header(TRUE, TRUE, TRUE, "user@"),
      Header(TRUE, TRUE, TRUE, "admin@") }

verifyAdmin(authHeader) ==
    IF ~authHeader.present \/ ~authHeader.bearer THEN FALSE
    ELSE IF ~authHeader.valid THEN FALSE
    ELSE IF authHeader.email = "" THEN FALSE
    ELSE authHeader.email \in AdminEmails

\* the entries the edit form can send for a stored patch: another direction,
\* a change removed, a change added, the comment cleared; and a body that
\* names another patchId
Bodies(stored) ==
    { [stored EXCEPT !.overallChange = o] : o \in ChangeTypes }
    \cup { [stored EXCEPT !.changes = IF @ = << >> THEN << >> ELSE Tail(@)],
           [stored EXCEPT !.changes = Append(@, NumericChange("buff"))],
           [stored EXCEPT !.devComment = NoComment],
           [stored EXCEPT !.patchId = 9] }

\* mutant of AdminPatchOk: the patchId of the body is not overridden
AdminPatchOkBodyId(authHeader, name, patchId, body) ==
    LET charData == characters[name]
        patchIndex == FindIndex(charData.patchHistory, patchId)
        merged == [charData.patchHistory EXCEPT ![patchIndex] = body]
        newHistory == recalculateStreaksFromIndex(merged, patchId)
    IN  /\ characters' = [characters EXCEPT
                            ![name] = [@ EXCEPT !.patchHistory = newHistory,
                                                !.stats = recalculateStats(newHistory)]]
        /\ out' = [Out("adminPatch") EXCEPT !.touched = {<< name, patchId >>},
                                            !.target = << name, patchId >>,
                                            !.auth = authHeader]

AdminPatchOk(authHeader, name, patchId, body) ==
    LET charData == characters[name]
        patchIndex == FindIndex(charData.patchHistory, patchId)
        merged == [charData.patchHistory EXCEPT
                     ![patchIndex] = [body EXCEPT !.patchId = patchId]]
        newHistory == recalculateStreaksFromIndex(merged, patchId)
    IN  /\ characters' = [characters EXCEPT
                            ![name] = [@ EXCEPT !.patchHistory = newHistory,
                                                !.stats = recalculateStats(newHistory)]]
        /\ out' = [Out("adminPatch") EXCEPT !.touched = {<< name, patchId >>},
                                            !.target = << name, patchId >>,
                                            !.auth = authHeader]

AdminPatch ==
    /\ ops < MaxOps
    /\ ops' = ops + 1
    /\ \E authHeader \in AuthHeaders, name \in VALID_CHARACTERS,
          patchId \in PatchIds \cup UnknownPatchIds :
          IF ~verifyAdmin(authHeader)
          THEN /\ out' = [Out("adminPatch") EXCEPT !.status = 401, !.auth = authHeader]
               /\ UNCHANGED characters
          ELSE IF ~characters[name].exists
                  \/ FindIndex(characters[name].patchHistory, patchId) = 0
          THEN /\ out' = [Out("adminPatch") EXCEPT !.status = 404, !.auth = authHeader,
                                                   !.target = << name, patchId >>]
               /\ UNCHANGED characters
          ELSE \E body \in Bodies(characters[name].patchHistory[
                                    FindIndex(characters[name].patchHistory, patchId)]) :
                  AdminPatchOk(authHeader, name, patchId, body)
    /\ UNCHANGED << patchNotes, ingPc, characterMap, unparsedPatches, ingIdx,
                    affectedCharacters, fixesFile, recovery >>
    /\ UNCHANGED << aggVars, missingFile >>

AdminRecalculate ==
    /\ ops < MaxOps
    /\ ops' = ops + 1
    /\ \E authHeader \in AuthHeaders, name \in VALID_CHARACTERS :
          IF ~verifyAdmin(authHeader)
          THEN /\ out' = [Out("adminRecalculate") EXCEPT !.status = 401]
               /\ UNCHANGED characters
          ELSE IF ~characters[name].exists
          THEN /\ out' = [Out("adminRecalculate") EXCEPT !.status = 404]
               /\ UNCHANGED characters
          ELSE LET updatedPatchHistory ==
                        recalculateAllStreaks(characters[name].patchHistory)
               IN  /\ characters' = [characters EXCEPT
                        ![name] = [@ EXCEPT
                                    !.patchHistory = updatedPatchHistory,
                                    !.stats = recalculateStats(updatedPatchHistory)]]
                   /\ out' = [Out("adminRecalculate") EXCEPT !.touched = {name}]
    /\ UNCHANGED << patchNotes, ingPc, characterMap, unparsedPatches, ingIdx,
                    affectedCharacters, fixesFile, recovery >>
    /\ UNCHANGED << aggVars, missingFile >>

----------------------------------------------------------------------------
(* check-missing-patches.ts: report the characters a patch note names that   *)
(* have no entry for it                                                      *)

RECURSIVE UniqueNames(_)
\* .filter((name, index, arr) => arr.indexOf(name) === index)
UniqueNames(names) ==
    IF names = << >> THEN << >>
    ELSE LET init == UniqueNames(SubSeq(names, 1, Len(names) - 1))
             last == names[Len(names)]
         IN  IF last \in SeqToSet(init) THEN init ELSE Append(init, last)

RECURSIVE NamesInLis(_)
\* the bold names of the top-level list items (hotfix dialect)
NamesInLis(lis) ==
    IF lis = << >> THEN << >>
    ELSE (IF Head(lis).kind = "name" /\ Head(lis).name \notin HotfixExcluded
          THEN << Head(lis).name >> ELSE << >>) \o NamesInLis(Tail(lis))

RECURSIVE NamesInElements(_)
\* characterNames, in document order
NamesInElements(els) ==
    IF els = << >> THEN << >>
    ELSE (IF Head(els).tag = "P"
          THEN (IF Head(els).kind = "name" /\ Head(els).name \notin SectionTitles
                THEN << Head(els).name >> ELSE << >>)
          ELSE NamesInLis(Head(els).items)) \o NamesInElements(Tail(els))

RECURSIVE NormalizeValid(_)
\* .map(normalizeCharacterName).filter(isValidCharacter)
NormalizeValid(names) ==
    IF names = << >> THEN << >>
    ELSE (IF isValidCharacter(normalizeCharacterName(Head(names)))
          THEN << normalizeCharacterName(Head(names)) >> ELSE << >>)
         \o NormalizeValid(Tail(names))

extractCharactersFromPatchNote(content) ==
    UniqueNames(NormalizeValid(NamesInElements(content)))

\* the patch ids of one stored history
PatchIdsOf(patchHistory) ==
    { patchHistory[i].patchId : i \in 1..Len(patchHistory) }

\* loadCharacterPatchMap: name -> the patch ids of its history
loadCharacterPatchMap(store) ==
    [ c \in ExistingNames(store) |-> PatchIdsOf(store[c].patchHistory) ]

\* getUsedPatchIds
getUsedPatchIds(store) ==
    UNION { PatchIdsOf(store[c].patchHistory) : c \in ExistingNames(store) }

\* loadPatchNotes(patchIds): the patch notes with these ids, id descending
loadPatchNotes(patchIds) == SortIdsDesc(patchIds \cap PatchIds)

\* mutant of missingOf: a character with any stored entry counts as present
missingOfAnyEntry(store, patchId) ==
    LET webCharacters == extractCharactersFromPatchNote(Documents[patchId].content)
        characterPatchMap == loadCharacterPatchMap(store)
        firebaseCharacters == { c \in DOMAIN characterPatchMap :
                                    characterPatchMap[c] # {} }
        missingCharacters == SelectSeq(webCharacters,
                                       LAMBDA name : name \notin firebaseCharacters)
    IN  [ i \in 1..Len(missingCharacters) |->
            [ patchId |-> patchId,
              patchDate |-> Documents[patchId].createdAt,
              characterName |-> missingCharacters[i] ] ]

\* the details one checked patch note adds
missingOf(store, patchId) ==
    LET webCharacters == extractCharactersFromPatchNote(Documents[patchId].content)
        characterPatchMap == loadCharacterPatchMap(store)
        firebaseCharacters == { c \in DOMAIN characterPatchMap :
                                    patchId \in characterPatchMap[c] }
        missingCharacters == SelectSeq(webCharacters,
                                       LAMBDA name : name \notin firebaseCharacters)
    IN  [ i \in 1..Len(missingCharacters) |->
            [ patchId |-> patchId,
              patchDate |-> Documents[patchId].createdAt,
              characterName |-> missingCharacters[i] ] ]

RECURSIVE checkLoop(_, _, _)
\* result.details after the loop over patchNotes
checkLoop(details, store, patches) ==
    IF patches = << >> THEN details
    ELSE checkLoop(details \o missingOf(store, Head(patches)), store, Tail(patches))

\* the command lines: --patch=<ids> (empty = not given)
CheckPatchArgs == { << >>, << 3 >>, << 3, 2, 1 >> }

CheckMissingPatches ==
    /\ ingPc = "idle"
    /\ ops < MaxOps
    /\ ops' = ops + 1
    /\ \E specificPatchIds \in CheckPatchArgs, limit \in {0, 1} :
          LET targetPatchIds == IF specificPatchIds # << >>
                                THEN SeqToSet(specificPatchIds)
                                ELSE getUsedPatchIds(characters)
              loaded == loadPatchNotes(targetPatchIds)
              checked == IF specificPatchIds = << >> THEN SliceLimit(loaded, limit)
                         ELSE loaded
              details == checkLoop(<< >>, characters, checked)
          IN  /\ missingFile' = IF Len(details) > 0 THEN details ELSE missingFile
              /\ out' = [Out("checkMissing") EXCEPT
                            !.n = Len(details),
                            !.targets = checked,
                            !.touched = { << details[i].characterName,
                                             details[i].patchId >> :
                                          i \in 1..Len(details) }]
    /\ UNCHANGED << characters, patchNotes, ingPc, characterMap, unparsedPatches,
                    ingIdx, affectedCharacters, fixesFile, recovery >>
    /\ UNCHANGED aggVars

----------------------------------------------------------------------------
(* fix-missing-patches.ts: parse one character of one patch note and append *)
(* the entry that is missing                                                 *)

\* the first top-level item whose bold name is the target, 0 when none
TargetLi(lis, targetChar) ==
    IF \E i \in 1..Len(lis) : lis[i].kind = "name" /\ lis[i].name = targetChar
    THEN CHOOSE i \in 1..Len(lis) :
            /\ lis[i].kind = "name" /\ lis[i].name = targetChar
            /\ \A j \in 1..(i - 1) : ~(lis[j].kind = "name" /\ lis[j].name = targetChar)
    ELSE 0

RECURSIVE TopLiChanges(_)
\* the header statement of every top-level item, then its descendants
TopLiChanges(lis) ==
    IF lis = << >> THEN << >>
    ELSE LiChange(Head(lis)) \o ChangesOf(Descendants(Head(lis).nested))
         \o TopLiChanges(Tail(lis))

\* one element of the section; st = [found, done, comments, changes]
ParseCharacterStep(st, el, targetChar) ==
    IF st.done THEN st
    ELSE IF el.tag = "P"
    THEN IF el.kind = "name" /\ el.name = targetChar
         THEN [st EXCEPT !.found = TRUE]
         ELSE IF el.kind = "name" /\ st.found
         THEN [st EXCEPT !.done = TRUE]
         ELSE IF st.found /\ el.kind = "comment"
         THEN [st EXCEPT !.comments = Append(@, el.comment)]
         ELSE st
    ELSE IF st.found
    THEN [st EXCEPT !.changes = @ \o TopLiChanges(el.items)]
    ELSE IF TargetLi(el.items, targetChar) # 0
    THEN [st EXCEPT !.found = TRUE,
                    !.changes = @ \o NumericOnly(
                                        el.items[TargetLi(el.items, targetChar)].nested)]
    ELSE st

RECURSIVE ParseCharacterLoop(_, _, _)
ParseCharacterLoop(st, els, targetChar) ==
    IF els = << >> THEN st
    ELSE ParseCharacterLoop(ParseCharacterStep(st, Head(els), targetChar),
                            Tail(els), targetChar)

\* [ok, name, devComment, changes]; ok = FALSE is the null result
parseCharacterFromPatchNote(content, targetChar) ==
    LET st == ParseCharacterLoop(
                [found |-> FALSE, done |-> FALSE, comments |-> << >>,
                 changes |-> << >>], content, targetChar)
    IN  [ ok |-> st.found /\ Len(st.changes) > 0,
          name |-> normalizeCharacterName(targetChar),
          devComment |-> IF Len(st.comments) > 0 THEN JoinComments(st.comments)
                         ELSE NoComment,
          changes |-> st.changes ]

\* mutant of fixOne: no look for an entry the history already has
fixOneNoLookup(acc, patchId, patchDate, charName) ==
    LET parsed == parseCharacterFromPatchNote(Documents[patchId].content, charName)
        cur == IF acc.map[charName].exists THEN acc.map[charName] ELSE NewCharacter
    IN  IF ~parsed.ok THEN acc
        ELSE [ map |-> [acc.map EXCEPT ![charName] =
                    [cur EXCEPT !.patchHistory = Append(@,
                        [ patchId |-> patchId,
                          patchDate |-> patchDate,
                          overallChange |-> determineOverallChange(parsed.changes),
                          streak |-> 0,
                          devComment |-> parsed.devComment,
                          changes |-> parsed.changes ])]],
               modified |-> acc.modified \cup {charName},
               fixed |-> acc.fixed \cup {<< charName, patchId >>} ]

\* the body of `for (const charName of patchInfo.characters)`;
\* acc = [map, modified, fixed]
fixOne(acc, patchId, patchDate, charName) ==
    LET parsed == parseCharacterFromPatchNote(Documents[patchId].content, charName)
        cur == IF acc.map[charName].exists THEN acc.map[charName] ELSE NewCharacter
    IN  IF ~parsed.ok THEN acc
        ELSE IF patchId \in PatchIdsOf(cur.patchHistory)
        THEN [acc EXCEPT !.map[charName] = cur]
        ELSE [ map |-> [acc.map EXCEPT ![charName] =
                    [cur EXCEPT !.patchHistory = Append(@,
                        [ patchId |-> patchId,
                          patchDate |-> patchDate,
                          overallChange |-> determineOverallChange(parsed.changes),
                          streak |-> 0,
                          devComment |-> parsed.devComment,
                          changes |-> parsed.changes ])]],
               modified |-> acc.modified \cup {charName},
               fixed |-> acc.fixed \cup {<< charName, patchId >>} ]

RECURSIVE fixItems(_, _)
\* the items of one patch, in file order
fixItems(acc, items) ==
    IF items = << >> THEN acc
    ELSE fixItems(fixOne(acc, Head(items).patchId, Head(items).patchDate,
                         Head(items).characterName), Tail(items))

RECURSIVE fixByPatch(_, _)
\* byPatch: the items grouped by patchId, groups in order of first appearance;
\* a group takes the date of its first item
fixByPatch(acc, items) ==
    IF items = << >> THEN acc
    ELSE LET first == Head(items)
             group == SelectSeq(items, LAMBDA it : it.patchId = first.patchId)
             rest == SelectSeq(items, LAMBDA it : it.patchId # first.patchId)
         IN  fixByPatch(
                fixItems(acc, [i \in 1..Len(group) |->
                                [group[i] EXCEPT !.patchDate = first.patchDate]]),
                rest)

\* itemsToFix: the --patch and --character filters (empty = not given)
FilterItems(details, targetPatchIds, targetCharacter) ==
    SelectSeq(details,
              LAMBDA item :
                /\ targetPatchIds = {} \/ item.patchId \in targetPatchIds
                /\ targetCharacter = "" \/ item.characterName = targetCharacter)

\* the run of main() in memory: [map, modified, fixed]
fixMissingRun(store, itemsToFix) ==
    fixByPatch([map |-> store, modified |-> {}, fixed |-> {}], itemsToFix)

\* mutant of fixMissingStore: the save is not guarded by the dry-run flag
fixMissingStoreAlways(store, itemsToFix, dryRun) ==
    LET run == fixMissingRun(store, itemsToFix)
    IN  [ c \in VALID_CHARACTERS |->
            IF c \in run.modified THEN Recompute(run.map[c]) ELSE store[c] ]

\* the store after main(): the modified characters are recomputed and saved
fixMissingStore(store, itemsToFix, dryRun) ==
    LET run == fixMissingRun(store, itemsToFix)
    IN  [ c \in VALID_CHARACTERS |->
            IF ~dryRun /\ c \in run.modified THEN Recompute(run.map[c])
            ELSE store[c] ]

FixMissingPatches ==
    /\ ingPc = "idle"
    /\ ops < MaxOps
    /\ ops' = ops + 1
    /\ \E dryRun \in BOOLEAN, targetPatchIds \in {{}, {3}},
          targetCharacter \in {""} \cup VALID_CHARACTERS :
          LET itemsToFix == FilterItems(missingFile, targetPatchIds, targetCharacter)
          IN  /\ characters' = fixMissingStore(characters, itemsToFix, dryRun)
              /\ out' = [Out("fixMissing") EXCEPT
                            !.n = Cardinality(fixMissingRun(characters, itemsToFix).fixed),
                            !.dryRun = dryRun,
                            !.touched = fixMissingRun(characters, itemsToFix).fixed,
                            !.targets = itemsToFix]
    /\ UNCHANGED << patchNotes, ingPc, characterMap, unparsedPatches, ingIdx,
                    affectedCharacters, fixesFile, recovery, missingFile >>
    /\ UNCHANGED aggVars

----------------------------------------------------------------------------
(* The pipeline *)

Init ==
    /\ characters = [c \in VALID_CHARACTERS |-> NoCharacter]
    /\ patchNotes = [ id \in PatchIds |->
                        [ status |-> "success",
                          hasCharacterData |-> Documents[id].hasCharacterData,
                          isParsed |-> FALSE ] ]
    /\ ingPc = "idle"
    /\ characterMap = [c \in VALID_CHARACTERS |-> NoCharacter]
    /\ unparsedPatches = << >>
    /\ ingIdx = 1
    /\ affectedCharacters = {}
    /\ fixesFile = << >>
    /\ out = Out("none")
    /\ recovery = [selected |-> {}, rerun |-> TRUE]
    /\ ops = 0
    /\ missingFile = << >>
    /\ aggHist = << >>
    /\ aggOut = [fn |-> "none", stats |-> ZeroStats, hist |-> << >>]
    /\ fnIn = NoInput
    /\ fnOut = NoOutput

Next ==
    \/ IngestStart
    \/ IngestParse
    \/ IngestMark
    \/ IngestFinish
    \/ Crash
    \/ FixDuplicatePatches
    \/ FindDuplicatePatches
    \/ Reparse
    \/ ApplyFixes
    \/ AdminPatch
    \/ AdminRecalculate

Spec == Init /\ [][Next]_vars

----------------------------------------------------------------------------
(* Aggregator harness: the four aggregators applied to bounded histories *)

AggEntry(id, e) ==
    [ patchId |-> id, patchDate |-> e[1], overallChange |-> e[2], streak |-> 0,
      devComment |-> NoComment, changes |-> << >> ]

\* stored histories of at most MaxHist entries: newest first, ids distinct
Histories ==
    UNION { { [i \in 1..n |-> AggEntry(n + 1 - i, f[i])] :
                f \in { g \in [1..n -> (1..MaxDate) \X ChangeTypes] :
                            \A i \in 1..(n - 1) : g[i][1] >= g[i + 1][1] } } :
            n \in 0..MaxHist }

InitAgg ==
    /\ characters = [c \in VALID_CHARACTERS |-> NoCharacter]
    /\ patchNotes = [ id \in PatchIds |->
                        [ status |-> "success",
                          hasCharacterData |-> Documents[id].hasCharacterData,
                          isParsed |-> FALSE ] ]
    /\ ingPc = "idle"
    /\ characterMap = [c \in VALID_CHARACTERS |-> NoCharacter]
    /\ unparsedPatches = << >>
    /\ ingIdx = 1
    /\ affectedCharacters = {}
    /\ fixesFile = << >>
    /\ out = Out("none")
    /\ recovery = [selected |-> {}, rerun |-> TRUE]
    /\ ops = 0
    /\ missingFile = << >>
    /\ aggHist \in Histories
    /\ aggOut = [fn |-> "none", stats |-> ZeroStats, hist |-> << >>]
    /\ fnIn = NoInput
    /\ fnOut = NoOutput

AggCalculateStats ==
    /\ aggOut' = [fn |-> "calculateStats", stats |-> calculateStats(aggHist),
                  hist |-> aggHist]
    /\ UNCHANGED << aggHist, fnIn, fnOut, pipeVars >>

AggRecalculateStats ==
    /\ aggOut' = [fn |-> "recalculateStats", stats |-> recalculateStats(aggHist),
                  hist |-> aggHist]
    /\ UNCHANGED << aggHist, fnIn, fnOut, pipeVars >>

AggCalculateStreaks ==
    /\ aggOut' = [fn |-> "calculateStreaks", stats |-> ZeroStats,
                  hist |-> calculateStreaks(aggHist)]
    /\ UNCHANGED << aggHist, fnIn, fnOut, pipeVars >>

AggRecalculateAllStreaks ==
    /\ aggOut' = [fn |-> "recalculateAllStreaks", stats |-> ZeroStats,
                  hist |-> recalculateAllStreaks(aggHist)]
    /\ UNCHANGED << aggHist, fnIn, fnOut, pipeVars >>

\* the end of the ingestion run for one character: sort, streaks, stats
AggRecompute ==
    /\ aggOut' = [fn |-> "Recompute", stats |-> Recompute([NewCharacter EXCEPT
                                                !.patchHistory = aggHist]).stats,
                  hist |-> Recompute([NewCharacter EXCEPT
                                        !.patchHistory = aggHist]).patchHistory]
    /\ UNCHANGED << aggHist, fnIn, fnOut, pipeVars >>

\* the admin POST handler for one character: all streaks, then stats
AggAdminRecalculate ==
    /\ aggOut' = [fn |-> "POST", stats |-> recalculateStats(recalculateAllStreaks(aggHist)),
                  hist |-> recalculateAllStreaks(aggHist)]
    /\ UNCHANGED << aggHist, fnIn, fnOut, pipeVars >>

NextAgg ==
    \/ AggCalculateStats
    \/ AggRecalculateStats
    \/ AggCalculateStreaks
    \/ AggRecalculateAllStreaks
    \/ AggRecompute
    \/ AggAdminRecalculate

SpecAgg == InitAgg /\ [][NextAgg]_vars

----------------------------------------------------------------------------
(* recalculateStreaksFromIndex on histories whose later streaks are stale *)

\* h with the stamps of recalculateAllStreaks on its k oldest entries and
\* the stamps it came with on the others
StampOldest(h, k) ==
    LET full == recalculateAllStreaks(h)
        chronological == SortOldestFirst(h)
        oldest == { chronological[j].patchId : j \in 1..k }
    IN  [ i \in 1..Len(h) |->
            IF h[i].patchId \in oldest
            THEN full[FindIndex(full, h[i].patchId)] ELSE h[i] ]

\* the call in the PATCH handler, on a history of which the k oldest entries
\* carry their streaks
AggRecalculateFromIndex ==
    /\ \E k \in 0..Len(aggHist), changedPatchId \in PatchIdsOf(aggHist) \cup UnknownPatchIds :
          aggOut' = [ fn |-> "recalculateStreaksFromIndex", stats |-> ZeroStats,
                      hist |-> recalculateStreaksFromIndex(StampOldest(aggHist, k),
                                                           changedPatchId),
                      input |-> StampOldest(aggHist, k),
                      changedPatchId |-> changedPatchId ]
    /\ UNCHANGED << aggHist, fnIn, fnOut, pipeVars >>

NextPartial == AggRecalculateFromIndex

SpecPartial == InitAgg /\ [][NextPartial]_vars

----------------------------------------------------------------------------
(* Repair: the reconciliation scripts over the stores ingestion leaves *)

RECURSIVE IngestAll(_, _)
\* the in-memory map after the loop of main() over `patches`
IngestAll(map, patches) ==
    IF patches = << >> THEN map
    ELSE IngestAll(PushAll(map, parsePatchNote(Documents[Head(patches)].content),
                           Head(patches)),
                   Tail(patches))

\* the store one completed ingestion run over `patches` leaves, from empty
StoreAfter(patches) ==
    LET map == IngestAll([c \in VALID_CHARACTERS |-> NoCharacter], patches)
    IN  [ c \in VALID_CHARACTERS |->
            IF map[c].exists THEN Recompute(map[c]) ELSE NoCharacter ]

\* what a completed run persisted: every note, or the notes that were not
\* yet marked when an earlier run was interrupted
IngestedStores ==
    { StoreAfter(<< 3, 2, 1 >>), StoreAfter(<< 2, 1 >>), StoreAfter(<< 1 >>),
      StoreAfter(<< >>) }

\* the details list of a data/missing-patches.json
MissingItem(patchId, characterName) ==
    [ patchId |-> patchId, patchDate |-> Documents[patchId].createdAt,
      characterName |-> characterName ]

\* no file yet, or a hand-written list that names one pair twice
MissingFiles ==
    { << >>, << MissingItem(3, "Debi & Marlene"), MissingItem(3, "Debi & Marlene") >> }

InitRepair ==
    /\ characters \in IngestedStores
    /\ patchNotes = [ id \in PatchIds |->
                        [ status |-> "success",
                          hasCharacterData |-> Documents[id].hasCharacterData,
                          isParsed |-> Documents[id].hasCharacterData ] ]
    /\ ingPc = "idle"
    /\ characterMap = [c \in VALID_CHARACTERS |-> NoCharacter]
    /\ unparsedPatches = << >>
    /\ ingIdx = 1
    /\ affectedCharacters = {}
    /\ fixesFile = << >>
    /\ out = Out("none")
    /\ recovery = [selected |-> {}, rerun |-> TRUE]
    /\ ops = 0
    /\ missingFile \in MissingFiles
    /\ aggHist = << >>
    /\ aggOut = [fn |-> "none", stats |-> ZeroStats, hist |-> << >>]
    /\ fnIn = NoInput
    /\ fnOut = NoOutput

NextRepair ==
    \/ CheckMissingPatches
    \/ FixMissingPatches
    \/ Reparse
    \/ ApplyFixes

SpecRepair == InitRepair /\ [][NextRepair]_vars

----------------------------------------------------------------------------
(* Direction harness: the direction functions applied to bounded inputs *)

RECURSIVE SeqsUpTo(_, _)
\* the sequences over S of length at most n
SeqsUpTo(S, n) ==
    IF n = 0 THEN { << >> }
    ELSE LET shorter == SeqsUpTo(S, n - 1)
         IN  shorter \cup { Append(q, x) : q \in shorter, x \in S }

\* a change by the fields the direction functions read
DirChanges ==
    { NumericChange(ct) : ct \in ChangeTypes } \cup { DescriptionChange }

\* null, the empty string, and comments by the keyword lists they match
DirComments ==
    { NoComment, Comment(0, FALSE, FALSE) }
    \cup { Comment(12, nk, bk) : nk \in BOOLEAN, bk \in BOOLEAN }

InitDir ==
    /\ characters = [c \in VALID_CHARACTERS |-> NoCharacter]
    /\ patchNotes = [ id \in PatchIds |->
                        [ status |-> "success",
                          hasCharacterData |-> Documents[id].hasCharacterData,
                          isParsed |-> FALSE ] ]
    /\ ingPc = "idle"
    /\ characterMap = [c \in VALID_CHARACTERS |-> NoCharacter]
    /\ unparsedPatches = << >>
    /\ ingIdx = 1
    /\ affectedCharacters = {}
    /\ fixesFile = << >>
    /\ out = Out("none")
    /\ recovery = [selected |-> {}, rerun |-> TRUE]
    /\ ops = 0
    /\ missingFile = << >>
    /\ aggHist = << >>
    /\ aggOut = [fn |-> "none", stats |-> ZeroStats, hist |-> << >>]
    /\ fnIn \in { [kind |-> "direction", changes |-> ch, comment |-> c] :
                    ch \in SeqsUpTo(DirChanges, MaxChanges), c \in DirComments }
    /\ fnOut = NoOutput

DirOverallChange ==
    /\ fnOut' = [fn |-> "determineOverallChange",
                 value |-> determineOverallChange(fnIn.changes)]
    /\ UNCHANGED << fnIn, aggHist, aggOut, pipeVars >>

DirOverallChangeWithComment ==
    /\ fnOut' = [fn |-> "determineOverallChangeWithComment",
                 value |-> determineOverallChangeWithComment(fnIn.changes,
                                                             fnIn.comment)]
    /\ UNCHANGED << fnIn, aggHist, aggOut, pipeVars >>

NextDir ==
    \/ DirOverallChange
    \/ DirOverallChangeWithComment

SpecDir == InitDir /\ [][NextDir]_vars

----------------------------------------------------------------------------
(* One change record: extraction's final map, fix-unknown-changes.ts and the *)
(* admin edit form                                                           *)

\* A text is the sequence of its words:
\*   "D" a number, "T" a word with no digit, "P" a parenthesis holding digits,
\*   "NBSP" the entity &nbsp;, "NONE" the word 없음, "DASH" the word -,
\*   "X" the word x, "DELETED" the word 삭제
\* a field the object does not have
Undefined == << "undefined" >>

\* .replace(/&nbsp;/g, ' ').replace(/&amp;/g, '&') ... .replace(/\s+/g, ' ').trim()
\* "AMPNBSP" is the text &amp;nbsp;: it holds no &nbsp; when the first replace
\* runs, and the second replace leaves &nbsp; behind
cleanHtmlEntities(str) ==
    LET kept == SelectSeq(str, LAMBDA t : t # "NBSP")
    IN  [ i \in 1..Len(kept) |-> IF kept[i] = "AMPNBSP" THEN "NBSP" ELSE kept[i] ]

\* index of the first number outside parentheses, 0 when there is none
findFirstNumberIndexOutsideParens(str) ==
    IF \E i \in 1..Len(str) : str[i] = "D"
    THEN CHOOSE i \in 1..Len(str) :
            /\ str[i] = "D"
            /\ \A j \in 1..(i - 1) : str[j] # "D"
    ELSE 0

\* /^\d/.test(str.trim())
startsWithNumber(str) == Len(str) > 0 /\ str[1] = "D"

splitAtFirstNumber(str) ==
    LET cleaned == cleanHtmlEntities(str)
        numIndex == findFirstNumberIndexOutsideParens(cleaned)
    IN  IF numIndex <= 1 THEN [prefix |-> << >>, value |-> cleaned]
        ELSE [prefix |-> SubSeq(cleaned, 1, numIndex - 1),
              value |-> SubSeq(cleaned, numIndex, Len(cleaned))]

determineChangeCategory(before, after) ==
    LET beforeClean == cleanHtmlEntities(before)
        afterClean == cleanHtmlEntities(after)
    IN  IF beforeClean \in { << >>, << "NONE" >>, << "DASH" >>, << "X" >> }
        THEN "added"
        ELSE IF afterClean \in { << >>, << "DELETED" >>, << "NONE" >>, << "DASH" >> }
        THEN "removed"
        ELSE IF startsWithNumber(before) /\ startsWithNumber(after) THEN "numeric"
        ELSE IF ~startsWithNumber(before) /\ ~startsWithNumber(after) THEN "mechanic"
        ELSE "unknown"

processChange(stat, before, after) ==
    LET cstat == cleanHtmlEntities(stat)
        cbefore == cleanHtmlEntities(before)
        cafter == cleanHtmlEntities(after)
        beforeSplit == splitAtFirstNumber(cbefore)
        afterSplit == splitAtFirstNumber(cafter)
        newStat == IF beforeSplit.prefix # << >>
                   THEN cstat \o beforeSplit.prefix ELSE cstat
        newBefore == IF beforeSplit.prefix # << >>
                     THEN beforeSplit.value ELSE cbefore
        newAfter == IF afterSplit.prefix # << >> /\ afterSplit.value # << >>
                    THEN afterSplit.value ELSE cafter
    IN  [stat |-> newStat, before |-> newBefore, after |-> newAfter,
         changeCategory |-> determineChangeCategory(newBefore, newAfter)]

\* what page.evaluate pushes for an arrow statement matched by numericPattern;
\* ct is the direction determineChangeType reads off the numbers
RawNumeric(stat, before, after, ct) ==
    [_type |-> "numeric", stat |-> stat, before |-> before, after |-> after,
     ct |-> ct, description |-> Undefined, isNew |-> FALSE, isRemoved |-> FALSE]

\* and for a statement without an arrow
RawDescription(isNew, isRemoved) ==
    [_type |-> "description", stat |-> Undefined, before |-> Undefined,
     after |-> Undefined, ct |-> "mixed", description |-> << "T", "T" >>,
     isNew |-> isNew, isRemoved |-> isRemoved]

\* characters.map(... changes: char.changes.map((change): Change => ...))
EmitChange(rawChange) ==
    IF rawChange._type = "description"
    THEN [ target |-> "skill", stat |-> Undefined, before |-> Undefined,
           after |-> Undefined, description |-> rawChange.description,
           changeType |-> "mixed",
           changeCategory |-> IF rawChange.isNew THEN "added"
                              ELSE IF rawChange.isRemoved THEN "removed"
                              ELSE "mechanic" ]
    ELSE LET processed == processChange(rawChange.stat, rawChange.before,
                                        rawChange.after)
         IN  [ target |-> "skill", stat |-> processed.stat,
               before |-> processed.before, after |-> processed.after,
               description |-> Undefined, changeType |-> rawChange.ct,
               changeCategory |-> "numeric" ]

\* texts the two sides of an arrow can be
ArrowTexts ==
    { << "D" >>, << "D", "P" >>, << "T" >>, << "T", "D" >>, << "NBSP", "D" >>,
      << "NONE" >>, << "DASH" >>, << "X" >>, << "DELETED" >> }

RawChanges ==
    { RawNumeric(<< "T" >>, b, a, ct) :
        b \in ArrowTexts, a \in ArrowTexts, ct \in {"buff", "nerf"} }
    \cup { RawDescription(n, r) : n \in BOOLEAN, r \in BOOLEAN }

\* two entries of the list, after its first (category only) and its ninth
\* (category, stat, before and after)
MANUAL_FIXES ==
    << [ target |-> "skill", stat |-> << "T" >>, newCategory |-> "mechanic",
         newStat |-> Undefined, newBefore |-> Undefined, newAfter |-> Undefined ],
       [ target |-> "skill", stat |-> << "T", "T" >>, newCategory |-> "numeric",
         newStat |-> << "T" >>, newBefore |-> << "T", "D" >>,
         newAfter |-> << "D", "P" >> ] >>

\* patch.changes.findIndex((c) => c.target === fix.target && c.stat === fix.stat)
FindChange(changes, fix) ==
    IF \E i \in 1..Len(changes) :
            changes[i].target = fix.target /\ changes[i].stat = fix.stat
    THEN CHOOSE i \in 1..Len(changes) :
            /\ changes[i].target = fix.target /\ changes[i].stat = fix.stat
            /\ \A j \in 1..(i - 1) :
                ~(changes[j].target = fix.target /\ changes[j].stat = fix.stat)
    ELSE 0

applyManualFix(changes, fix) ==
    LET changeIndex == FindChange(changes, fix)
    IN  IF changeIndex = 0 THEN changes
        ELSE [changes EXCEPT ![changeIndex] =
                [@ EXCEPT
                    !.changeCategory = fix.newCategory,
                    !.stat = IF fix.newStat # Undefined THEN fix.newStat ELSE @,
                    !.before = IF fix.newBefore # Undefined THEN fix.newBefore ELSE @,
                    !.after = IF fix.newAfter # Undefined THEN fix.newAfter ELSE @]]

RECURSIVE fixUnknownChanges(_, _)
\* for (const fix of MANUAL_FIXES)
fixUnknownChanges(changes, fixes) ==
    IF fixes = << >> THEN changes
    ELSE fixUnknownChanges(applyManualFix(changes, Head(fixes)), Tail(fixes))

\* the object handleAddChange appends
NewChange ==
    [ target |-> "base", stat |-> << >>, before |-> << >>, after |-> << >>,
      description |-> Undefined, changeType |-> "mixed",
      changeCategory |-> "unknown" ]

ChangeCategories == {"numeric", "mechanic", "added", "removed", "unknown"}

\* isNumeric is what the imported guard isNumericChange answers for the
\* change; its body is not among the sources, so the caller draws it
handleCategoryChange(change, newCategory, isNumeric) ==
    IF newCategory = "numeric"
    THEN [ target |-> change.target, stat |-> << >>, before |-> << >>,
           after |-> << >>, description |-> Undefined,
           changeType |-> change.changeType, changeCategory |-> "numeric" ]
    ELSE [ target |-> change.target, stat |-> Undefined, before |-> Undefined,
           after |-> Undefined,
           description |-> IF isNumeric
                           THEN change.stat \o change.before \o change.after
                           ELSE IF change.description = Undefined THEN << >>
                           ELSE change.description,
           changeType |-> change.changeType, changeCategory |-> newCategory ]

\* fnOut in this harness: the changes of the stored entry, the edit form's
\* editedPatch.changes while the form is open, and the steps taken so far
ChangeState(fn, changes, editing, form, steps) ==
    [fn |-> fn, changes |-> changes, editing |-> editing, form |-> form,
     steps |-> steps]

InitChange ==
    /\ characters = [c \in VALID_CHARACTERS |-> NoCharacter]
    /\ patchNotes = [ id \in PatchIds |->
                        [ status |-> "success",
                          hasCharacterData |-> Documents[id].hasCharacterData,
                          isParsed |-> FALSE ] ]
    /\ ingPc = "idle"
    /\ characterMap = [c \in VALID_CHARACTERS |-> NoCharacter]
    /\ unparsedPatches = << >>
    /\ ingIdx = 1
    /\ affectedCharacters = {}
    /\ fixesFile = << >>
    /\ out = Out("none")
    /\ recovery = [selected |-> {}, rerun |-> TRUE]
    /\ ops = 0
    /\ missingFile = << >>
    /\ aggHist = << >>
    /\ aggOut = [fn |-> "none", stats |-> ZeroStats, hist |-> << >>]
    /\ fnIn \in { [kind |-> "rawChange", raw |-> r] : r \in RawChanges }
    /\ fnOut = ChangeState("none", << >>, FALSE, << >>, 0)

\* parsePatchNote's final map, and the entry stored with its result
ChgExtract ==
    /\ fnOut.fn = "none"
    /\ fnOut' = ChangeState("parsePatchNote", << EmitChange(fnIn.raw) >>,
                            FALSE, << >>, fnOut.steps + 1)
    /\ UNCHANGED << fnIn, aggHist, aggOut, pipeVars >>

ChgFixUnknown ==
    /\ fnOut.fn # "none"
    /\ fnOut.steps < MaxEdits
    /\ ~fnOut.editing
    /\ fnOut' = ChangeState("fixUnknownChanges",
                            fixUnknownChanges(fnOut.changes, MANUAL_FIXES),
                            FALSE, << >>, fnOut.steps + 1)
    /\ UNCHANGED << fnIn, aggHist, aggOut, pipeVars >>

\* PatchEditForm mounts: useState(patch)
ChgOpenForm ==
    /\ fnOut.fn # "none"
    /\ fnOut.steps < MaxEdits
    /\ ~fnOut.editing
    /\ fnOut' = ChangeState("PatchEditForm", fnOut.changes, TRUE, fnOut.changes,
                            fnOut.steps + 1)
    /\ UNCHANGED << fnIn, aggHist, aggOut, pipeVars >>

ChgAddChange ==
    /\ fnOut.editing
    /\ fnOut.steps < MaxEdits
    /\ fnOut' = [fnOut EXCEPT !.fn = "handleAddChange",
                              !.form = Append(@, NewChange),
                              !.steps = @ + 1]
    /\ UNCHANGED << fnIn, aggHist, aggOut, pipeVars >>

ChgCategoryChange ==
    /\ fnOut.editing
    /\ fnOut.steps < MaxEdits
    /\ \E index \in 1..Len(fnOut.form), newCategory \in ChangeCategories,
          isNumeric \in BOOLEAN :
          fnOut' = [fnOut EXCEPT
                      !.fn = "handleCategoryChange",
                      !.form[index] = handleCategoryChange(@, newCategory,
                                                           isNumeric),
                      !.steps = @ + 1]
    /\ UNCHANGED << fnIn, aggHist, aggOut, pipeVars >>

ChgDelete ==
    /\ fnOut.editing
    /\ fnOut.steps < MaxEdits
    /\ \E index \in 1..Len(fnOut.form) :
          fnOut' = [fnOut EXCEPT
                      !.fn = "handleChangeDelete",
                      !.form = SubSeq(@, 1, index - 1)
                               \o SubSeq(@, index + 1, Len(@)),
                      !.steps = @ + 1]
    /\ UNCHANGED << fnIn, aggHist, aggOut, pipeVars >>

\* handleSubmit, and the PATCH handler storing the body's changes
ChgSubmit ==
    /\ fnOut.editing
    /\ fnOut.steps < MaxEdits
    /\ fnOut' = ChangeState("handleSubmit", fnOut.form, FALSE, << >>,
                            fnOut.steps + 1)
    /\ UNCHANGED << fnIn, aggHist, aggOut, pipeVars >>

NextChange ==
    \/ ChgExtract
    \/ ChgFixUnknown
    \/ ChgOpenForm
    \/ ChgAddChange
    \/ ChgCategoryChange
    \/ ChgDelete
    \/ ChgSubmit

SpecChange == InitChange /\ [][NextChange]_vars

----------------------------------------------------------------------------
(* validate-links.ts: give every patch note without a status its status *)

\* A URL of the site is the sequence of what follows the host: NewsPath for
\* the text /posts/news/, then the digits of a post id (none: the news list)
NewsPath == -1

\* /posts/news/<id>
PostUrl(id) == << NewsPath, id >>

\* finalUrl.includes(expected)
Includes(url, expected) ==
    \E k \in 0..(Len(url) - Len(expected)) :
        \A j \in 1..Len(expected) : url[k + j] = expected[j]

\* where page.goto(note.link) can end: the post itself, the news list, another
\* post, and the post whose id is this id followed by the digit 0
FinalUrls(id) ==
    { PostUrl(id), << NewsPath >>, PostUrl((id % 4) + 1), << NewsPath, id, 0 >> }

\* what one visit of the loop meets: page.goto or page.evaluate throws, or
\* the response's status, the final URL and what the content check returns
Fetches(id) ==
    { [ id |-> id, threw |-> TRUE, httpStatus |-> 0, finalUrl |-> PostUrl(id),
        hasContent |-> FALSE, hasCharacterData |-> FALSE ] }
    \cup { [ id |-> id, threw |-> FALSE, httpStatus |-> h, finalUrl |-> u,
             hasContent |-> c, hasCharacterData |-> d ] :
           h \in {200, 404, 0}, u \in FinalUrls(id), c \in BOOLEAN, d \in BOOLEAN }

NoFetch ==
    [ id |-> 0, threw |-> FALSE, httpStatus |-> 0, finalUrl |-> << >>,
      hasContent |-> FALSE, hasCharacterData |-> FALSE ]

\* the body of the loop of validateLinks: status and hasCharacterData written
validateOne(fetch) ==
    IF fetch.threw THEN [status |-> "error", hasCharacterData |-> FALSE]
    ELSE IF ~Includes(fetch.finalUrl, PostUrl(fetch.id))
    THEN [status |-> "redirect", hasCharacterData |-> FALSE]
    ELSE IF fetch.httpStatus # 200
    THEN [status |-> "error", hasCharacterData |-> FALSE]
    ELSE IF ~fetch.hasContent
    THEN [status |-> "no_content", hasCharacterData |-> FALSE]
    ELSE [status |-> "success", hasCharacterData |-> fetch.hasCharacterData]

\* getUnvalidatedPatchNotes: no status yet, id descending
getUnvalidatedPatchNotes ==
    SortIdsDesc({ id \in PatchIds : patchNotes[id].status = "none" })

\* fnOut in this harness: the selected notes, the loop index, the last visit
LinksState(pc, unvalidatedPatches, i, last) ==
    [fn |-> "validateLinks", pc |-> pc,
     unvalidatedPatches |-> unvalidatedPatches, i |-> i, last |-> last]

InitLinks ==
    /\ characters = [c \in VALID_CHARACTERS |-> NoCharacter]
    /\ patchNotes \in
        [ PatchIds ->
            { [status |-> "none", hasCharacterData |-> FALSE, isParsed |-> FALSE],
              [status |-> "success", hasCharacterData |-> TRUE, isParsed |-> FALSE] } ]
    /\ ingPc = "idle"
    /\ characterMap = [c \in VALID_CHARACTERS |-> NoCharacter]
    /\ unparsedPatches = << >>
    /\ ingIdx = 1
    /\ affectedCharacters = {}
    /\ fixesFile = << >>
    /\ out = Out("none")
    /\ recovery = [selected |-> {}, rerun |-> TRUE]
    /\ ops = 0
    /\ missingFile = << >>
    /\ aggHist = << >>
    /\ aggOut = [fn |-> "none", stats |-> ZeroStats, hist |-> << >>]
    /\ fnIn = NoInput
    /\ fnOut = LinksState("idle", << >>, 1, NoFetch)

ValidateStart ==
    /\ fnOut.pc = "idle"
    /\ fnOut' = IF getUnvalidatedPatchNotes = << >>
                THEN LinksState("done", << >>, 1, NoFetch)
                ELSE LinksState("loop", getUnvalidatedPatchNotes, 1, NoFetch)
    /\ UNCHANGED << characters, patchNotes, ingPc, characterMap, unparsedPatches,
                    ingIdx, affectedCharacters, fixesFile, out, recovery, ops,
                    missingFile, fnIn, aggHist, aggOut >>

ValidateNote ==
    /\ fnOut.pc = "loop"
    /\ fnOut.i <= Len(fnOut.unvalidatedPatches)
    /\ \E fetch \in Fetches(fnOut.unvalidatedPatches[fnOut.i]) :
          LET written == validateOne(fetch)
          IN  /\ patchNotes' =
                    [patchNotes EXCEPT
                        ![fetch.id] = [@ EXCEPT
                            !.status = written.status,
                            !.hasCharacterData = written.hasCharacterData]]
              /\ fnOut' = [fnOut EXCEPT !.i = @ + 1, !.last = fetch]
    /\ UNCHANGED << characters, ingPc, characterMap, unparsedPatches,
                    ingIdx, affectedCharacters, fixesFile, out, recovery, ops,
                    missingFile, fnIn, aggHist, aggOut >>

ValidateFinish ==
    /\ fnOut.pc = "loop"
    /\ fnOut.i > Len(fnOut.unvalidatedPatches)
    /\ fnOut' = [fnOut EXCEPT !.pc = "done"]
    /\ UNCHANGED << characters, patchNotes, ingPc, characterMap, unparsedPatches,
                    ingIdx, affectedCharacters, fixesFile, out, recovery, ops,
                    missingFile, fnIn, aggHist, aggOut >>

NextLinks ==
    \/ ValidateStart
    \/ ValidateNote
    \/ ValidateFinish

SpecLinks == InitLinks /\ [][NextLinks]_vars

----------------------------------------------------------------------------
(* The ingestion run when parsePatchNote fails on a document *)

\* why parsePatchNote returns []: page.goto throws or times out (caught), no
\* .er-article-detail__content element, no h5 with the section heading
ParseFailures == {"exception", "no content", "no section"}

\* fnOut in this harness: the documents whose parse failed, with the cause
InitIngest ==
    /\ characters = [c \in VALID_CHARACTERS |-> NoCharacter]
    /\ patchNotes = [ id \in PatchIds |->
                        [ status |-> "success",
                          hasCharacterData |-> Documents[id].hasCharacterData,
                          isParsed |-> FALSE ] ]
    /\ ingPc = "idle"
    /\ characterMap = [c \in VALID_CHARACTERS |-> NoCharacter]
    /\ unparsedPatches = << >>
    /\ ingIdx = 1
    /\ affectedCharacters = {}
    /\ fixesFile = << >>
    /\ out = Out("none")
    /\ recovery = [selected |-> {}, rerun |-> TRUE]
    /\ ops = 0
    /\ missingFile = << >>
    /\ aggHist = << >>
    /\ aggOut = [fn |-> "none", stats |-> ZeroStats, hist |-> << >>]
    /\ fnIn = NoInput
    /\ fnOut = [fn |-> "parsePatchNote", failed |-> {}]

\* mutant of IngestParseFails: the failure ends the run
IngestParseHalts ==
    /\ ingPc = "parse"
    /\ \E cause \in ParseFailures :
          fnOut' = [fnOut EXCEPT !.failed = @ \cup {<< unparsedPatches[ingIdx], cause >>}]
    /\ ingPc' = "idle"
    /\ characterMap' = [c \in VALID_CHARACTERS |-> NoCharacter]
    /\ unparsedPatches' = << >>
    /\ affectedCharacters' = {}
    /\ ingIdx' = 1
    /\ UNCHANGED << characters, patchNotes, fixesFile, out, recovery, ops,
                    missingFile, fnIn, aggHist, aggOut >>

\* one iteration of the loop of main() in which parsePatchNote returns []
IngestParseFails ==
    /\ ingPc = "parse"
    /\ \E cause \in ParseFailures :
          fnOut' = [fnOut EXCEPT !.failed = @ \cup {<< unparsedPatches[ingIdx], cause >>}]
    /\ LET patch == unparsedPatches[ingIdx]
           parsed == << >>
       IN  /\ characterMap' = PushAll(characterMap, parsed, patch)
           /\ affectedCharacters' = affectedCharacters \cup NamesOf(parsed)
    /\ ingPc' = "mark"
    /\ UNCHANGED << characters, patchNotes, unparsedPatches, ingIdx, fixesFile,
                    out, recovery, ops, missingFile, fnIn, aggHist, aggOut >>

NextIngest ==
    \/ IngestStart
    \/ IngestParse
    \/ IngestParseFails
    \/ IngestMark
    \/ IngestFinish

SpecIngest == InitIngest /\ [][NextIngest]_vars

----------------------------------------------------------------------------
(* determineChangeType: the direction of one arrow statement *)

\* The pieces of a before or an after that /[\d.]+/g tells apart:
\*   Num(n)  a run of digits and dots that Number() reads as n
\*   Dots    a run that Number() reads as NaN: a full stop after a unit, "..."
\*   Word    text with no digit and no dot
Num(n) == [k |-> "num", v |-> n]

Dots == [k |-> "dots", v |-> 0]

Word == [k |-> "word", v |-> 0]

\* value.match(/[\d.]+/g).map(Number): the runs, words dropped
extractNumbers(value) == SelectSeq(value, LAMBDA t : t.k # "word")

RECURSIVE SumOf(_)
SumOf(nums) == IF nums = << >> THEN 0 ELSE Head(nums).v + SumOf(Tail(nums))

\* a sum that holds a NaN is NaN, and so is the average
AvgIsNaN(nums) == \E i \in 1..Len(nums) : nums[i].k = "dots"

\* the words a stat name can hold, and the keywords of DECREASE_IS_BUFF each
\* of them contains as a substring
StatWords == {"cooldown", "damage", "speed"}

DECREASE_IS_BUFF == {"cooldown", "cd", "mana", "sp", "mp", "cast", "delay", "wait"}

KeywordsIn(word) ==
    IF word = "cooldown" THEN {"cooldown"}
    ELSE IF word = "speed" THEN {"sp"}
    ELSE {}

\* DECREASE_IS_BUFF.some((k) => statLower.includes(k))
isDecreaseBuffStat(stat) ==
    \E i \in 1..Len(stat) : KeywordsIn(stat[i]) \cap DECREASE_IS_BUFF # {}

\* averages are compared as sum/length: a/m > b/n iff a*n > b*m
determineChangeType(stat, before, after) ==
    LET beforeNums == extractNumbers(before)
        afterNums == extractNumbers(after)
        nan == AvgIsNaN(beforeNums) \/ AvgIsNaN(afterNums)
        equal == /\ ~nan
                 /\ SumOf(beforeNums) * Len(afterNums)
                        = SumOf(afterNums) * Len(beforeNums)
        isIncrease == /\ ~nan
                      /\ SumOf(afterNums) * Len(beforeNums)
                            > SumOf(beforeNums) * Len(afterNums)
    IN  IF Len(beforeNums) = 0 \/ Len(afterNums) = 0 THEN "mixed"
        ELSE IF equal THEN "mixed"
        ELSE IF isDecreaseBuffStat(stat)
        THEN (IF isIncrease THEN "nerf" ELSE "buff")
        ELSE (IF isIncrease THEN "buff" ELSE "nerf")

\* the befores and afters given to the function: one or two pieces
ValueTexts ==
    LET pieces == { Num(n) : n \in 1..MaxValue } \cup { Dots, Word }
    IN  { << p >> : p \in pieces } \cup { << p, q >> : p \in pieces, q \in pieces }

InitType ==
    /\ characters = [c \in VALID_CHARACTERS |-> NoCharacter]
    /\ patchNotes = [ id \in PatchIds |->
                        [ status |-> "success",
                          hasCharacterData |-> Documents[id].hasCharacterData,
                          isParsed |-> FALSE ] ]
    /\ ingPc = "idle"
    /\ characterMap = [c \in VALID_CHARACTERS |-> NoCharacter]
    /\ unparsedPatches = << >>
    /\ ingIdx = 1
    /\ affectedCharacters = {}
    /\ fixesFile = << >>
    /\ out = Out("none")
    /\ recovery = [selected |-> {}, rerun |-> TRUE]
    /\ ops = 0
    /\ missingFile = << >>
    /\ aggHist = << >>
    /\ aggOut = [fn |-> "none", stats |-> ZeroStats, hist |-> << >>]
    /\ fnIn \in { [kind |-> "arrow", stat |-> << w >>, before |-> b, after |-> a] :
                    w \in StatWords, b \in ValueTexts, a \in ValueTexts }
    /\ fnOut = NoOutput

TypeDetermine ==
    /\ fnOut' = [fn |-> "determineChangeType",
                 value |-> determineChangeType(fnIn.stat, fnIn.before, fnIn.after)]
    /\ UNCHANGED << fnIn, aggHist, aggOut, pipeVars >>

NextType == TypeDetermine

SpecType == InitType /\ [][NextType]_vars

----------------------------------------------------------------------------
(* processChange applied to its own output *)

\* the stats, befores and afters given to processChange
ProcessTexts ==
    LET pieces == {"D", "T", "P", "NBSP", "AMPNBSP", "NONE"}
    IN  { << >> } \cup { << p >> : p \in pieces }
            \cup { << p, q >> : p \in pieces, q \in pieces }

ProcessStats == { << "T" >>, << "T", "NBSP" >>, << "T", "AMPNBSP" >> }

InitProcess ==
    /\ characters = [c \in VALID_CHARACTERS |-> NoCharacter]
    /\ patchNotes = [ id \in PatchIds |->
                        [ status |-> "success",
                          hasCharacterData |-> Documents[id].hasCharacterData,
                          isParsed |-> FALSE ] ]
    /\ ingPc = "idle"
    /\ characterMap = [c \in VALID_CHARACTERS |-> NoCharacter]
    /\ unparsedPatches = << >>
    /\ ingIdx = 1
    /\ affectedCharacters = {}
    /\ fixesFile = << >>
    /\ out = Out("none")
    /\ recovery = [selected |-> {}, rerun |-> TRUE]
    /\ ops = 0
    /\ missingFile = << >>
    /\ aggHist = << >>
    /\ aggOut = [fn |-> "none", stats |-> ZeroStats, hist |-> << >>]
    /\ fnIn \in { [kind |-> "triple", stat |-> st, before |-> b, after |-> a] :
                    st \in ProcessStats, b \in ProcessTexts, a \in ProcessTexts }
    /\ fnOut = [fn |-> "processChange", passes |-> 0,
                first |-> processChange(<< >>, << >>, << >>),
                value |-> processChange(<< >>, << >>, << >>)]

\* the first pass over the raw triple
ProcessFirst ==
    /\ fnOut.passes = 0
    /\ LET processed == processChange(fnIn.stat, fnIn.before, fnIn.after)
       IN  fnOut' = [fnOut EXCEPT !.passes = 1, !.first = processed,
                                  !.value = processed]
    /\ UNCHANGED << fnIn, aggHist, aggOut, pipeVars >>

\* a later pass over what the pass before it returned
ProcessAgain ==
    /\ fnOut.passes = 1
    /\ LET processed == processChange(fnOut.value.stat, fnOut.value.before,
                                      fnOut.value.after)
       IN  fnOut' = [fnOut EXCEPT !.passes = 2, !.value = processed]
    /\ UNCHANGED << fnIn, aggHist, aggOut, pipeVars >>

NextProcess == ProcessFirst \/ ProcessAgain

SpecProcess == InitProcess /\ [][NextProcess]_vars

----------------------------------------------------------------------------
(* The writers of character documents that re-aggregate a history *)

\* the notes an earlier ingestion run has parsed, newest first
IngestedBefore == { << 3, 2, 1 >>, << 2, 1 >>, << 1 >>, << >> }

InitWriters ==
    /\ \E patches \in IngestedBefore :
          /\ characters = StoreAfter(patches)
          /\ patchNotes = [ id \in PatchIds |->
                              [ status |-> "success",
                                hasCharacterData |-> Documents[id].hasCharacterData,
                                isParsed |-> id \in SeqToSet(patches) ] ]
    /\ ingPc = "idle"
    /\ characterMap = [c \in VALID_CHARACTERS |-> NoCharacter]
    /\ unparsedPatches = << >>
    /\ ingIdx = 1
    /\ affectedCharacters = {}
    /\ fixesFile = << >>
    /\ out = Out("none")
    /\ recovery = [selected |-> {}, rerun |-> TRUE]
    /\ ops = 0
    /\ missingFile \in MissingFiles
    /\ aggHist = << >>
    /\ aggOut = [fn |-> "none", stats |-> ZeroStats, hist |-> << >>]
    /\ fnIn = NoInput
    /\ fnOut = NoOutput

NextWriters ==
    \/ IngestStart
    \/ IngestParse
    \/ IngestMark
    \/ IngestFinish
    \/ FixMissingPatches
    \/ AdminPatch
    \/ AdminRecalculate

SpecWriters == InitWriters /\ [][NextWriters]_vars

----------------------------------------------------------------------------
(* check-missing-patches and fix-missing-patches in alternation *)

\* the stores the reconciliation starts from: what ingestion left, and what
\* an earlier repair from a hand-written list made of it
RepairedStores ==
    { fixMissingStore(store, file, FALSE) : store \in IngestedStores, file \in MissingFiles }

InitConverge ==
    /\ characters \in RepairedStores
    /\ patchNotes = [ id \in PatchIds |->
                        [ status |-> "success",
                          hasCharacterData |-> Documents[id].hasCharacterData,
                          isParsed |-> Documents[id].hasCharacterData ] ]
    /\ ingPc = "idle"
    /\ characterMap = [c \in VALID_CHARACTERS |-> NoCharacter]
    /\ unparsedPatches = << >>
    /\ ingIdx = 1
    /\ affectedCharacters = {}
    /\ fixesFile = << >>
    /\ out = Out("none")
    /\ recovery = [selected |-> {}, rerun |-> TRUE]
    /\ ops = 0
    /\ missingFile \in MissingFiles
    /\ aggHist = << >>
    /\ aggOut = [fn |-> "none", stats |-> ZeroStats, hist |-> << >>]
    /\ fnIn = NoInput
    /\ fnOut = NoOutput

NextConverge == CheckMissingPatches \/ FixMissingPatches

SpecConverge == InitConverge /\ [][NextConverge]_vars

----------------------------------------------------------------------------
(* Properties *)

StatsFns == {"calculateStats", "recalculateStats"}

\* the order in which the aggregator that produced aggOut walks a history
Chronological(fn, h) ==
    IF fn \in {"recalculateStats", "recalculateAllStreaks"}
    THEN SortOldestFirst(h) ELSE Reverse(h)

\* the longest block of consecutive entries of direction t
LongestRun(chron, t) ==
    LET blocks == { b \in (1..Len(chron)) \X (1..Len(chron)) :
                        /\ b[1] <= b[2]
                        /\ \A k \in b[1]..b[2] : chron[k].overallChange = t }
    IN  IF blocks = {} THEN 0
        ELSE LET m == CHOOSE b \in blocks :
                        \A c \in blocks : c[2] - c[1] <= b[2] - b[1]
             IN  m[2] - m[1] + 1

\* the number of consecutive entries ending at i that have entry i's direction
RunEndingAt(chron, i) ==
    LET breaks == { j \in 1..(i - 1) :
                        chron[j].overallChange # chron[i].overallChange }
        last == IF breaks = {} THEN 0
                ELSE CHOOSE j \in breaks : \A k \in breaks : k <= j
    IN  i - last

RECURSIVE SubSeqAt(_, _, _)
\* the entries of h at the indices of S that are >= i, in order
SubSeqAt(h, i, S) ==
    IF i > Len(h) THEN << >>
    ELSE (IF i \in S THEN << h[i] >> ELSE << >>) \o SubSeqAt(h, i + 1, S)

\* the entries that no earlier entry shares a patchId with
FirstOccurrences(h) ==
    SubSeqAt(h, 1, { i \in 1..Len(h) :
                        \A j \in 1..(i - 1) : h[j].patchId # h[i].patchId })

\* C1: in every persisted state, each character's stored stats are the stats
\* recomputed from its stored patchHistory (by the scripts' or by the admin
\* API's aggregator).
C1_StatsMatchHistory ==
    \A c \in VALID_CHARACTERS :
        characters[c].exists =>
            characters[c].stats \in { calculateStats(characters[c].patchHistory),
                                      recalculateStats(characters[c].patchHistory) }

\* C2: the stats an aggregator returns have totalPatches = the number of
\* entries, and buffCount + nerfCount + mixedCount = totalPatches.
C2_CountsAddUp ==
    aggOut.fn \in StatsFns =>
        /\ aggOut.stats.totalPatches = Len(aggHist)
        /\ aggOut.stats.buffCount + aggOut.stats.nerfCount
             + aggOut.stats.mixedCount = aggOut.stats.totalPatches

C2_Witness ==
    /\ aggOut.fn = "calculateStats"
    /\ Len(aggHist) >= 3
    /\ aggOut.stats.buffCount > 0
    /\ aggOut.stats.nerfCount > 0
    /\ aggOut.stats.mixedCount > 0

\* C3: in a stats aggregator a mixed entry resets the run: the max streaks
\* are the longest blocks of consecutive same-direction entries, and when the
\* most recent entry is mixed the current streak is {null, 0}.
C3_MixedResetsRun ==
    (aggOut.fn \in StatsFns /\ aggHist # << >>) =>
        LET chron == Chronological(aggOut.fn, aggHist)
        IN  /\ aggOut.stats.maxBuffStreak = LongestRun(chron, "buff")
            /\ aggOut.stats.maxNerfStreak = LongestRun(chron, "nerf")
            /\ chron[Len(chron)].overallChange = "mixed" =>
                    aggOut.stats.currentStreak = [type |-> "null", count |-> 0]

\* C4: calculateStreaks stamps every buff/nerf entry with the length of the
\* run of same-direction entries ending at it, a run being broken by an
\* opposite entry and by a mixed entry.
C4_StreakIsRunLength ==
    aggOut.fn = "calculateStreaks" =>
        LET chron == Chronological(aggOut.fn, aggOut.hist)
        IN  \A i \in 1..Len(chron) :
                chron[i].overallChange \in {"buff", "nerf"} =>
                    chron[i].streak = RunEndingAt(chron, i)

\* C5: after an admin PATCH or an application of corrected parses that
\* overwrote an entry, the stored streak of that entry and of every entry of
\* the character with a later patchDate is what a full recomputation of the
\* history (the scripts' or the admin API's) assigns.
C5_LaterStreaksRecomputed ==
    (out.op \in {"adminPatch", "applyFixes"} /\ ~out.dryRun) =>
        \A t \in out.touched :
            LET h == characters[t[1]].patchHistory
                idx == FindIndex(h, t[2])
            IN  \E full \in { calculateStreaks(h), recalculateAllStreaks(h) } :
                    \A i \in 1..Len(h) :
                        (i = idx \/ h[i].patchDate > h[idx].patchDate) =>
                            h[i].streak = full[i].streak

\* C6: one ingestion run never holds two entries with the same patchId in
\* one character's history for a document it selected.
C6_OneEntryPerDocument ==
    ingPc # "idle" =>
        \A c \in VALID_CHARACTERS : \A i \in 1..Len(unparsedPatches) :
            CountWhere(characterMap[c].patchHistory, unparsedPatches[i]) <= 1

\* C7 (no entry is lost): once a run has completed after an interrupted one,
\* every valid character of every document the interrupted run had selected
\* has a persisted entry for that document.
C7_NoEntryLostAfterRerun ==
    (ingPc = "idle" /\ recovery.rerun) =>
        \A d \in recovery.selected :
            \A c \in NamesOf(parsePatchNote(Documents[d].content)) :
                /\ characters[c].exists
                /\ CountWhere(characters[c].patchHistory, d) >= 1

\* C8: duplicate removal leaves, for every character, exactly the first
\* entry of every patchId, in the stored order, and nothing else changes in
\* the history.
C8_KeepsFirstOccurrences ==
    [][FixDuplicatePatches =>
         \A c \in VALID_CHARACTERS :
            characters'[c].patchHistory =
                FirstOccurrences(characters[c].patchHistory)]_vars

C8_Witness ==
    /\ out.op = "fixDuplicates"
    /\ out.n > 0
    /\ \E c \in VALID_CHARACTERS : Len(characters[c].patchHistory) >= 2

\* C9: after fixDuplicatePatches, findDuplicatePatches counts no duplicate
\* for any character, and a second fixDuplicatePatches removes nothing and
\* writes nothing.
C9_DedupFixedPoint ==
    out.op = "fixDuplicates" =>
        /\ \A c \in ExistingNames(characters) :
                duplicatesOf(characters[c].patchHistory) = 0
        /\ totalDuplicatesOf(characters) = 0
        /\ totalFixedOf(characters) = 0
        /\ writtenBy(characters) = {}
        /\ fixDuplicatesStore(characters) = characters

C9_Witness ==
    /\ out.op = "fixDuplicates"
    /\ "Aya" \in out.touched
    /\ characters["Aya"].exists

\* the (character, patchId) pairs of a reparse run that have a stored entry
ReparsedStored ==
    { pr \in VALID_CHARACTERS \X (SeqToSet(out.targets) \cap PatchIds) :
        /\ pr[1] \in NamesOf(reparsePatchNote(Documents[pr[2]].content))
        /\ characters[pr[1]].exists
        /\ FindIndex(characters[pr[1]].patchHistory, pr[2]) # 0 }

ProposedPairs ==
    { << fixesFile[i].characterName, fixesFile[i].patchId >> :
        i \in 1..Len(fixesFile) }

\* C10: a reparse run proposes only (character, patchId) pairs that have a
\* stored entry; without force only when the new parse has more changes or
\* a longer comment than the stored entry; with force every reparsed pair
\* that has a stored entry.
C10_ProposesImprovementsOnly ==
    out.op = "reparse" =>
        /\ \A i \in 1..Len(fixesFile) :
              LET fix == fixesFile[i]
                  char == characters[fix.characterName]
                  idx == FindIndex(char.patchHistory, fix.patchId)
              IN  /\ char.exists
                  /\ idx # 0
                  /\ ~out.force =>
                        \/ Len(fix.newData.changes) > Len(char.patchHistory[idx].changes)
                        \/ CommentLength(fix.newData.devComment)
                             > CommentLength(char.patchHistory[idx].devComment)
        /\ out.force => ProposedPairs = ReparsedStored
        /\ ProposedPairs \subseteq ReparsedStored

C10_Witness ==
    /\ out.op = "reparse"
    /\ ~out.force
    /\ ProposedPairs # {}
    /\ ProposedPairs # ReparsedStored

\* C11: a reparse run, whatever its options, writes the staged fixes file
\* only: no step that runs it or that changes the fixes file changes a
\* stored character or a patch note.
C11_ReparseOnlyStages ==
    [][(Reparse \/ fixesFile' # fixesFile) =>
            (characters' = characters /\ patchNotes' = patchNotes)]_vars

\* a run has staged a fix whose data the stored entry does not have
C11_Witness ==
    /\ out.op = "reparse"
    /\ \E i \in 1..Len(fixesFile) :
          LET h == characters[fixesFile[i].characterName].patchHistory
          IN  h[FindIndex(h, fixesFile[i].patchId)].changes
                  # fixesFile[i].newData.changes

\* C12: a dry run of apply-fixes or of fix-missing-patches writes no
\* character document, whatever the input file and the filters.
C12_DryRunWritesNothing ==
    [][((ApplyFixes \/ FixMissingPatches) /\ out'.dryRun) =>
            characters' = characters]_vars

\* a dry run of fix-missing-patches that had an entry to append
C12_Witness ==
    /\ out.op = "fixMissing"
    /\ out.dryRun
    /\ out.n > 0
    /\ \E t \in out.touched :
          t[2] \notin PatchIdsOf(characters[t[1]].patchHistory)

\* the numeric verdict of a change list, by which directions occur in it
NumericVerdict(changes) ==
    LET has(t) == \E i \in 1..Len(changes) : changes[i].changeType = t
    IN  IF has("buff") /\ ~has("nerf") THEN "buff"
        ELSE IF has("nerf") /\ ~has("buff") THEN "nerf"
        ELSE "mixed"

\* C13: a change list with a buff and no nerf is buff, with a nerf and no
\* buff is nerf, anything else mixed; the comment decides only a mixed
\* verdict, and only when it matches exactly one of the two keyword lists.
C13_DirectionRule ==
    /\ fnOut.fn = "determineOverallChange" =>
            fnOut.value = NumericVerdict(fnIn.changes)
    /\ fnOut.fn = "determineOverallChangeWithComment" =>
            LET verdict == NumericVerdict(fnIn.changes)
                c == fnIn.comment
                said == ~c.isNull /\ c.len > 0
            IN  fnOut.value =
                    IF verdict # "mixed" THEN verdict
                    ELSE IF said /\ c.nerfKw /\ ~c.buffKw THEN "nerf"
                    ELSE IF said /\ c.buffKw /\ ~c.nerfKw THEN "buff"
                    ELSE "mixed"

\* one buff and one nerf, a comment with a nerf keyword only: nerf
C13_Witness ==
    /\ fnOut.fn = "determineOverallChangeWithComment"
    /\ NumericVerdict(fnIn.changes) = "mixed"
    /\ \E i \in 1..Len(fnIn.changes) : fnIn.changes[i].changeType = "buff"
    /\ fnIn.comment.nerfKw /\ ~fnIn.comment.buffKw /\ fnIn.comment.len > 0
    /\ fnOut.value = "nerf"

\* C14: a change that extraction emits is tagged numeric exactly when its
\* before and its after, as emitted, both start with a digit.
C14_NumericIffDigits ==
    fnOut.fn = "parsePatchNote" =>
        \A i \in 1..Len(fnOut.changes) :
            LET c == fnOut.changes[i]
            IN  (c.changeCategory = "numeric")
                    <=> (startsWithNumber(c.before) /\ startsWithNumber(c.after))

\* a change has the numeric group when stat, before and after are all there
HasNumericGroup(c) ==
    c.stat # Undefined /\ c.before # Undefined /\ c.after # Undefined

HasDescriptionGroup(c) == c.description # Undefined

WellFormedChange(c) ==
    /\ HasNumericGroup(c) # HasDescriptionGroup(c)
    /\ HasNumericGroup(c) => c.changeCategory = "numeric"
    /\ HasDescriptionGroup(c) =>
            /\ c.changeCategory \in {"mechanic", "added", "removed", "unknown"}
            /\ c.stat = Undefined /\ c.before = Undefined /\ c.after = Undefined

\* C15: every stored change carries exactly one of the two field groups, and
\* the group its changeCategory names.
C15_StoredChangesWellFormed ==
    \A i \in 1..Len(fnOut.changes) : WellFormedChange(fnOut.changes[i])

\* the valid characters a document's character section names, in a bold
\* paragraph or in the bold head of a top-level list item
NamedIn(content) ==
    { c \in VALID_CHARACTERS :
        \E i \in 1..Len(content) :
            \/ /\ content[i].tag = "P" /\ content[i].kind = "name"
               /\ normalizeCharacterName(content[i].name) = c
            \/ /\ content[i].tag = "UL"
               /\ \E j \in 1..Len(content[i].items) :
                    /\ content[i].items[j].kind = "name"
                    /\ normalizeCharacterName(content[i].items[j].name) = c }

HasEntry(c, patchId) ==
    /\ characters[c].exists
    /\ \E i \in 1..Len(characters[c].patchHistory) :
            characters[c].patchHistory[i].patchId = patchId

\* C16: the report of a check-missing run holds the pair (character, patchId)
\* exactly for the checked documents and the valid characters they name that
\* have no stored entry with that patchId.
C16_ReportsExactlyTheMissing ==
    out.op = "checkMissing" =>
        out.touched =
            { pair \in VALID_CHARACTERS \X SeqToSet(out.targets) :
                /\ pair[1] \in NamedIn(Documents[pair[2]].content)
                /\ ~HasEntry(pair[1], pair[2]) }

\* one checked document names a character that is reported and another that
\* has its entry and is not
C16_Witness ==
    /\ out.op = "checkMissing"
    /\ \E id \in SeqToSet(out.targets) :
        \E c1 \in NamedIn(Documents[id].content),
           c2 \in NamedIn(Documents[id].content) :
            /\ << c1, id >> \in out.touched
            /\ HasEntry(c2, id)
            /\ << c2, id >> \notin out.touched

\* the number of entries of a history with this patchId
EntriesWith(patchHistory, patchId) ==
    Cardinality({ i \in 1..Len(patchHistory) : patchHistory[i].patchId = patchId })

\* C17: a repair run adds no entry to a history that already has one with
\* that patchId, not even when the list names the pair twice, and a second
\* run over the same list leaves the store as the first run left it.
C17_RepairIdempotent ==
    /\ [][FixMissingPatches =>
            \A c \in VALID_CHARACTERS, id \in PatchIds :
                LET before == EntriesWith(characters[c].patchHistory, id)
                    after == EntriesWith(characters'[c].patchHistory, id)
                IN  after = IF before = 0 /\ << c, id >> \in out'.touched
                                /\ ~out'.dryRun
                            THEN 1 ELSE before]_vars
    /\ [](out.op = "fixMissing" /\ ~out.dryRun =>
            fixMissingStore(characters, out.targets, FALSE) = characters)

\* a run over a list that names one pair twice, which added its entry once
C17_Witness ==
    /\ out.op = "fixMissing" /\ ~out.dryRun
    /\ \E i, j \in 1..Len(out.targets) :
        /\ i # j
        /\ out.targets[i].patchId = out.targets[j].patchId
        /\ out.targets[i].characterName = out.targets[j].characterName
        /\ << out.targets[i].characterName, out.targets[i].patchId >> \in out.touched
        /\ EntriesWith(characters[out.targets[i].characterName].patchHistory,
                       out.targets[i].patchId) = 1

\* C18: a visit that throws, that is answered with another status than 200 or
\* that ends on another URL than the note's own is recorded as that note's
\* status error or redirect with hasCharacterData false, and the loop goes
\* on; when the run ends every selected note has one of the four statuses.
C18_LinkFailuresIsolated ==
    /\ [][ValidateNote =>
            LET fetch == fnOut'.last
            IN  /\ fnOut'.i = fnOut.i + 1
                /\ fnOut'.pc = "loop"
                /\ (fetch.threw \/ fetch.httpStatus # 200
                        \/ fetch.finalUrl # PostUrl(fetch.id)) =>
                    /\ patchNotes'[fetch.id].status \in {"error", "redirect"}
                    /\ ~patchNotes'[fetch.id].hasCharacterData]_vars
    /\ [](fnOut.pc = "done" =>
            \A k \in 1..Len(fnOut.unvalidatedPatches) :
                patchNotes[fnOut.unvalidatedPatches[k]].status
                    \in {"success", "no_content", "error", "redirect"})

\* the documents of the running batch whose parse failed
FailedIds == { f[1] : f \in fnOut.failed }

\* how many results parsePatchNote gives a character in a document
ParsedFor(c, patchId) ==
    LET parsed == parsePatchNote(Documents[patchId].content)
    IN  Cardinality({ i \in 1..Len(parsed) : parsed[i].name = c })

\* C19: a document whose parse fails adds nothing and the loop goes on to
\* mark it and to the next document; when the run ends, every other selected
\* document has its entries stored and the failed ones have none added.
C19_ParseFailuresIsolated ==
    /\ [][IngestParseFails =>
            /\ ingPc' = "mark"
            /\ characterMap' = characterMap
            /\ unparsedPatches' = unparsedPatches /\ ingIdx' = ingIdx]_vars
    /\ [][IngestFinish =>
            \A k \in 1..Len(unparsedPatches), c \in VALID_CHARACTERS :
                LET id == unparsedPatches[k]
                    before == EntriesWith(characters[c].patchHistory, id)
                    after == EntriesWith(characters'[c].patchHistory, id)
                IN  after = IF id \in FailedIds THEN before
                            ELSE before + ParsedFor(c, id)]_vars

\* a finished run in which one document failed and a later one was stored
C19_Witness ==
    /\ out.op = "ingest"
    /\ \E i, j \in 1..Len(out.targets) :
        /\ i < j
        /\ out.targets[i] \in FailedIds
        /\ out.targets[j] \notin FailedIds
        /\ \E c \in VALID_CHARACTERS :
                EntriesWith(characters[c].patchHistory, out.targets[j]) > 0

\* C20: in an aggregator's result the current streak is never longer than
\* the longest streak of its direction.
C20_MaxCoversCurrent ==
    aggOut.fn \in StatsFns =>
        /\ aggOut.stats.currentStreak.type = "buff" =>
                aggOut.stats.maxBuffStreak >= aggOut.stats.currentStreak.count
        /\ aggOut.stats.currentStreak.type = "nerf" =>
                aggOut.stats.maxNerfStreak >= aggOut.stats.currentStreak.count

\* a history that ends on its longest buff run, of two patches or more
C20_Witness ==
    /\ aggOut.fn \in StatsFns
    /\ aggOut.stats.currentStreak.type = "buff"
    /\ aggOut.stats.currentStreak.count >= 2
    /\ aggOut.stats.maxBuffStreak = aggOut.stats.currentStreak.count

\* the largest streak stamped on an entry of direction t, 0 when none has it
LargestStamp(h, t) ==
    LET stamps == { h[i].streak : i \in { k \in 1..Len(h) : h[k].overallChange = t } }
    IN  IF stamps = {} THEN 0 ELSE CHOOSE m \in stamps : \A x \in stamps : x <= m

\* C21: after a streak pass and the stats pass that follows it, maxBuffStreak
\* is the largest streak stamped on a buff entry and maxNerfStreak the largest
\* stamped on a nerf entry (0 when there is no such entry).
C21_MaxIsLargestStamp ==
    aggOut.fn \in {"Recompute", "POST"} =>
        /\ aggOut.stats.maxBuffStreak = LargestStamp(aggOut.hist, "buff")
        /\ aggOut.stats.maxNerfStreak = LargestStamp(aggOut.hist, "nerf")

\* a history with a mixed entry between two buffs, and a nerf
C21_Witness ==
    /\ aggOut.fn = "Recompute"
    /\ aggOut.stats.maxBuffStreak >= 2
    /\ aggOut.stats.maxNerfStreak >= 1
    /\ \E i \in 1..Len(aggOut.hist) : aggOut.hist[i].overallChange = "mixed"

\* the numbers written in a text, and their sum
NumbersIn(text) == SelectSeq(text, LAMBDA t : t.k = "num")

\* C22: no number on a side, or equal averages: mixed; otherwise a stat with
\* a lower-is-better keyword is buffed by a decrease and nerfed by an
\* increase, and any other stat the other way round.
C22_DirectionOfChange ==
    fnOut.fn = "determineChangeType" =>
        LET b == NumbersIn(fnIn.before)
            a == NumbersIn(fnIn.after)
            up == SumOf(a) * Len(b) > SumOf(b) * Len(a)
            same == SumOf(a) * Len(b) = SumOf(b) * Len(a)
            lower == \E i \in 1..Len(fnIn.stat) :
                        KeywordsIn(fnIn.stat[i]) \cap DECREASE_IS_BUFF # {}
        IN  fnOut.value =
                IF Len(b) = 0 \/ Len(a) = 0 \/ same THEN "mixed"
                ELSE IF lower THEN (IF up THEN "nerf" ELSE "buff")
                ELSE (IF up THEN "buff" ELSE "nerf")

\* the same, for texts in which no run of dots stands apart from a number
C22_WithoutStrayDots ==
    (fnOut.fn = "determineChangeType"
        /\ \A i \in 1..Len(fnIn.before) : fnIn.before[i].k # "dots"
        /\ \A j \in 1..Len(fnIn.after) : fnIn.after[j].k # "dots")
    => C22_DirectionOfChange

\* C23: processChange applied to the output of processChange returns the
\* stat, before, after and changeCategory of the first application.
C23_ProcessChangeIdempotent ==
    (fnOut.fn = "processChange" /\ fnOut.passes = 2) => fnOut.value = fnOut.first

\* the same, for triples whose texts hold no entity that decodes to an entity
C23_WithoutNestedEntities ==
    LET plain(text) == \A i \in 1..Len(text) : text[i] # "AMPNBSP"
    IN  (fnOut.fn = "processChange" /\ fnOut.passes = 2
            /\ plain(fnIn.stat) /\ plain(fnIn.before) /\ plain(fnIn.after))
        => fnOut.value = fnOut.first

\* patchDate does not increase from one index to the next
NewestFirst(h) == \A i \in 1..(Len(h) - 1) : h[i].patchDate >= h[i + 1].patchDate

\* patchDate does not decrease from one index to the next
OldestFirst(h) == \A i \in 1..(Len(h) - 1) : h[i].patchDate <= h[i + 1].patchDate

\* the characters whose document the step wrote
WrittenCharacters == { c \in VALID_CHARACTERS : characters'[c] # characters[c] }

\* C24: a document written by ingestion, missing-patch repair, admin PATCH or
\* admin recalculation holds its history newest first, and the order in which
\* either aggregator walks that history is oldest first.
C24_WrittenNewestFirst ==
    [][ \A c \in WrittenCharacters :
            /\ NewestFirst(characters'[c].patchHistory)
            /\ \A fn \in StatsFns :
                  OldestFirst(Chronological(fn, characters'[c].patchHistory)) ]_vars

\* an ingestion run has added entries to a stored history, which now holds
\* entries of different dates
C24_Witness ==
    /\ out.op = "ingest"
    /\ out.n > 0
    /\ \E c \in VALID_CHARACTERS :
          /\ Len(characters[c].patchHistory) >= 3
          /\ characters[c].patchHistory[1].patchDate
                > characters[c].patchHistory[Len(characters[c].patchHistory)].patchDate

\* C25: for a stored history, the ingestion pair calculateStreaks and
\* calculateStats returns the per-entry streaks and the stats that the admin
\* pair recalculateAllStreaks and recalculateStats returns.
C25_AggregatorsAgree ==
    aggOut.fn = "Recompute" =>
        /\ aggOut.hist = recalculateAllStreaks(aggHist)
        /\ aggOut.stats = recalculateStats(recalculateAllStreaks(aggHist))

\* the same, for histories with no mixed entry and no two entries of one date
C25_AgreeOnPlainHistories ==
    (aggOut.fn = "Recompute"
        /\ \A i \in 1..Len(aggHist) :
              /\ aggHist[i].overallChange # "mixed"
              /\ \A j \in 1..Len(aggHist) :
                    i # j => aggHist[i].patchDate # aggHist[j].patchDate)
    => C25_AggregatorsAgree

\* what an admin edit sets in an entry
EditedFields(entry) ==
    [ overallChange |-> entry.overallChange, changes |-> entry.changes,
      devComment |-> entry.devComment ]

\* C26: an entry an admin PATCH wrote while an ingestion run was between its
\* load and its save is in the store, as edited, after the run has saved.
C26_AdminEditSurvivesIngestion ==
    [][ (ingPc = "finish" /\ out'.op = "ingest"
            /\ out.op = "adminPatch" /\ out.status = 200)
        => \A t \in out.touched :
              LET before == characters[t[1]].patchHistory
                  after == characters'[t[1]].patchHistory
              IN  /\ FindIndex(after, t[2]) # 0
                  /\ EditedFields(after[FindIndex(after, t[2])])
                        = EditedFields(before[FindIndex(before, t[2])]) ]_vars

\* the same for an edit that was committed before the run loaded the store
C26_EditBeforeLoadSurvives ==
    [][ (ingPc = "finish" /\ out'.op = "ingest"
            /\ out.op = "adminPatch" /\ out.status = 200
            /\ \A t \in out.touched :
                  characterMap[t[1]].exists
                  /\ FindIndex(characterMap[t[1]].patchHistory, t[2]) # 0
                  /\ EditedFields(characterMap[t[1]].patchHistory[
                        FindIndex(characterMap[t[1]].patchHistory, t[2])])
                     = EditedFields(characters[t[1]].patchHistory[
                        FindIndex(characters[t[1]].patchHistory, t[2])]))
        => \A t \in out.touched :
              LET before == characters[t[1]].patchHistory
                  after == characters'[t[1]].patchHistory
              IN  /\ FindIndex(after, t[2]) # 0
                  /\ EditedFields(after[FindIndex(after, t[2])])
                        = EditedFields(before[FindIndex(before, t[2])]) ]_vars

\* the entries of the stored histories
StoredEntries ==
    UNION { SeqToSet(characters[c].patchHistory) : c \in VALID_CHARACTERS }

\* C27: whichever of ingestion, missing-patch repair and apply-fixes wrote an
\* entry, its overallChange is the comment-aware verdict on its changes and
\* its developer comment.
C27_SameVerdictFromEveryScript ==
    \A e \in StoredEntries :
        e.overallChange = determineOverallChangeWithComment(e.changes, e.devComment)

\* the same for the stores that ingestion alone has written
C27_IngestionVerdict ==
    out.op = "none" => C27_SameVerdictFromEveryScript

\* the entries that come before the changed one carry the streaks a full
\* recalculation gives them
EarlierStreaksCorrect(h, changedPatchId) ==
    LET chronological == SortOldestFirst(h)
        full == SortOldestFirst(recalculateAllStreaks(h))
    IN  \A j \in 1..(FindIndex(chronological, changedPatchId) - 1) :
            chronological[j].streak = full[j].streak

\* C28: on a history whose entries before the changed one carry correct
\* streaks, recalculateStreaksFromIndex returns what recalculateAllStreaks
\* returns; for an id the history does not have it changes no streak.
C28_PartialEqualsFull ==
    aggOut.fn = "recalculateStreaksFromIndex" =>
        IF FindIndex(aggOut.input, aggOut.changedPatchId) = 0
        THEN /\ Len(aggOut.hist) = Len(aggOut.input)
             /\ \A i \in 1..Len(aggOut.input) :
                   /\ FindIndex(aggOut.hist, aggOut.input[i].patchId) # 0
                   /\ aggOut.hist[FindIndex(aggOut.hist, aggOut.input[i].patchId)].streak
                        = aggOut.input[i].streak
        ELSE EarlierStreaksCorrect(aggOut.input, aggOut.changedPatchId)
                => aggOut.hist = recalculateAllStreaks(aggOut.input)

\* the changed entry continues a run of two earlier entries, and the entries
\* after it came in with stale streaks
C28_Witness ==
    /\ aggOut.fn = "recalculateStreaksFromIndex"
    /\ FindIndex(aggOut.input, aggOut.changedPatchId) # 0
    /\ EarlierStreaksCorrect(aggOut.input, aggOut.changedPatchId)
    /\ aggOut.input # aggOut.hist
    /\ aggOut.hist[FindIndex(aggOut.hist, aggOut.changedPatchId)].streak = 3
    /\ FindIndex(aggOut.hist, aggOut.changedPatchId) > 1

\* what check-missing-patches with no arguments reports for a store
ReportFor(store) == checkLoop(<< >>, store, loadPatchNotes(getUsedPatchIds(store)))

\* a fix-missing run without dry-run and without filters, over the file a
\* check of the store it starts from has written
RepairOfFullReport ==
    /\ out'.op = "fixMissing"
    /\ ~out'.dryRun
    /\ out'.targets = missingFile
    /\ missingFile = ReportFor(characters)
    /\ missingFile # << >>

\* C29: the repair step adds every pair the checker reported, and the check
\* that follows reports nothing.
C29_RepairAddsEveryReportedPair ==
    [][ RepairOfFullReport
        => /\ \A i \in 1..Len(missingFile) :
                 /\ characters'[missingFile[i].characterName].exists
                 /\ missingFile[i].patchId \in
                      PatchIdsOf(characters'[missingFile[i].characterName].patchHistory)
           /\ ReportFor(characters') = << >> ]_vars

\* the pairs the repair step does add are not reported again
C29_AddedPairsNotReportedAgain ==
    [][ RepairOfFullReport
        => \A i \in 1..Len(ReportFor(characters')) :
              << ReportFor(characters')[i].characterName,
                 ReportFor(characters')[i].patchId >> \notin out'.touched ]_vars

\* the patchIds of a history, in order
IdsInOrder(h) == [ i \in 1..Len(h) |-> h[i].patchId ]

=============================================================================
